---- MODULE Spec2Model ----
(***************************************************************************)
(* Model of the document post-processing pipeline of mcp-devtools          *)
(* (internal/tools/docprocessing/python): the per-figure analysis          *)
(* dispatcher of extract_diagram_descriptions, the Mermaid conversion of   *)
(* diagram records and the table renderers.                                *)
(*                                                                         *)
(* Confidences are floats in the source; here they are integers in units   *)
(* of 1/10000 (0.8 is 8000).                                               *)
(***************************************************************************)
EXTENDS Integers, Sequences, FiniteSets, TLC

\* ------------------------------------------------------------------ bounds
MaxFigures == 2

\* ------------------------------------------------------------ vocabulary
None == "None"
VisionModes == {"standard", "advanced", "smoldocling"}
Strategies == {"EXTERNAL", "LOCAL", "BASIC", "CONTEXT"}

\* An upstream figure element, seen through the attribute probes of the code:
\*   raw    extract_image_data_from_figure finds image bytes on it
\*   stext  it has a surrounding_text attribute
\*   text   it has a non-empty text attribute (extract_diagram_text_elements)
Figures == [raw : BOOLEAN, stext : BOOLEAN, text : BOOLEAN]
NoFigure == [raw |-> FALSE, stext |-> FALSE, text |-> FALSE]

\* What the vision endpoint can answer to the one POST request.
ExternalOutcomes ==
  {"mermaid_block", "no_diagram_marker", "plain_text", "json_elements_null",
   "not_a_string", "no_choices", "malformed_body", "http_error",
   "network_error"}

\* What the local SmolDocling model can do.
SmolDoclingOutcomes == {"analysed", "import_error", "exception"}

\* What OCR can do inside analyze_with_basic_vision.
OcrOutcomes == {"import_error", "exception", "no_results", "text_found",
                "blank_results"}

VARIABLES
  entry,               \* the function the caller invoked
  caller_args,         \* args exactly as the caller passed them
  args,                \* the args variable of the running function
  env,                 \* DOCLING_VLM_* environment: url, key, fallback_local
  nfigures,            \* len(figures) after the collection phase
  figure,              \* the loop variable: the figure being processed
  i,                   \* loop index of extract_diagram_descriptions
  pc,                  \* position in the code
  pipeline_type,       \* argument of analyze_with_vlm_pipeline
  image_data,          \* where generate_vlm_description took the bytes from
  trace,               \* strategies run for the current figure, in order
  http,                \* POST requests issued for the current figure
  ext_outcome,         \* answer to the POST request of the current figure
  vision_description,  \* local variable of the loop body
  diagrams,            \* the list being returned
  raised,              \* an exception reached the function's outer except
  \* the table renderers (table_processing.py)
  headers,             \* List[str]
  rows,                \* List[List[str]]
  caption,             \* str
  markdown,            \* table_data["markdown"]
  csv,                 \* table_data["csv"]
  html,                \* table_data["html"]
  table_data,          \* what extract_table_from_element returned, None before
  tpc,                 \* position in "Generate export formats"
  input_diagrams,      \* convert_diagrams_to_mermaid: its diagrams argument
  converted_diagrams,  \* the list it builds
  cidx,                \* how many diagrams its loop has finished
  mermaid_result,      \* the result of generate_mermaid_code, None before
  returned,            \* the list it returned
  cpc,                 \* its position
  document,            \* extract_diagram_descriptions: the document it reads
  page_number,         \* the page_number attribute of each element, 0: none
  figures,             \* the figures it collected
  fig_diagrams,        \* the records it built for them
  fig_raised,          \* its loop body raised
  kpc,                 \* its position
  cl_diagram,          \* classify_diagram_vs_screenshot: its diagram argument
  cl_calls,            \* the calls made to it, with their locals and results
  clpc,                \* its position
  ty_figure,           \* classify_diagram_type, its figure argument
  ty_result,           \* what it returned, None before
  typc,                \* its position
  vlm_content,         \* parse_vlm_response, the response content
  vlm_block,           \* the lines between the fences of the content, if any
  vlm_result,          \* what parse_vlm_response returned, None before
  vpc,                 \* its position
  ctx_text,            \* analyze_with_context_data, the figure's surrounding_text
  ctx_result,          \* what it returned, None before
  xpc,                 \* its position
  val_code,            \* validate_mermaid_syntax, its argument
  val_result,          \* what it returned, None before
  vapc,                \* its position
  bv_ocr,              \* analyze_with_basic_vision, what its OCR block does
  bv_result,           \* what it returned, None before
  bpc,                 \* its position
  syn_diagram,         \* generate_mermaid_code, the diagram record
  syn_result,          \* what it returned, None before
  spc,                 \* its position
  rf_args,             \* the args handed to resolve_feature_dependencies
  rf_result,           \* the resolved args it returned
  rfpc,                \* position of the resolve_feature_dependencies caller
  mi_pictures,         \* the pictures of the converted document
  mi_external,         \* remote services enabled with vision mode advanced
  images,              \* the image records of process_document
  content_output,      \* the markdown of process_document, piece by piece
  mermaid_results,     \* what process_images_with_vlm_pipeline returned
  mpc                  \* position in the image and Mermaid stages of process_document

dispatchVars == <<entry, caller_args, args, env, nfigures, figure, i, pc,
                  pipeline_type, image_data, trace, http, ext_outcome,
                  vision_description, diagrams, raised>>

tableVars == <<headers, rows, caption, markdown, csv, html, table_data, tpc>>

convertVars == <<input_diagrams, converted_diagrams, cidx, mermaid_result,
                 returned, cpc>>

collectVars == <<document, page_number, figures, fig_diagrams, fig_raised,
                 kpc>>

classifyVars == <<cl_diagram, cl_calls, clpc>>

diagramTypeVars == <<ty_figure, ty_result, typc>>

parseVars == <<vlm_content, vlm_block, vlm_result, vpc>>

contextVars == <<ctx_text, ctx_result, xpc>>

validateVars == <<val_code, val_result, vapc>>

basicVisionVars == <<bv_ocr, bv_result, bpc>>

synthesizeVars == <<syn_diagram, syn_result, spc>>

resolveVars == <<rf_args, rf_result, rfpc>>

integrateVars == <<mi_pictures, mi_external, images, content_output, mermaid_results, mpc>>

vars == <<dispatchVars, tableVars, convertVars, collectVars, classifyVars,
        diagramTypeVars, parseVars, contextVars, validateVars,
        basicVisionVars, synthesizeVars, resolveVars, integrateVars>>

\* --------------------------------------------- resolve_feature_dependencies
ResolveFeatureDependencies(a) ==
  LET chart == a.chart_data_extraction
      diag  == a.diagram_description
      vm1   == IF chart /\ a.vision_mode = "standard" THEN "advanced"
               ELSE a.vision_mode
      rs1   == IF chart /\ ~a.enable_remote_services THEN TRUE
               ELSE a.enable_remote_services
      vm2   == IF diag /\ a.vision_mode = "standard" THEN "advanced" ELSE vm1
      rs2   == IF diag /\ ~a.enable_remote_services THEN TRUE ELSE rs1
      pm1   == IF a.vision_mode = "smoldocling" /\ a.processing_mode = "basic"
               THEN "advanced" ELSE a.processing_mode
      pm2   == IF a.vision_mode = "advanced" /\ a.processing_mode = "basic"
               THEN "advanced" ELSE pm1
      pm3   == IF a.table_former_mode = "fast"
                  /\ a.processing_mode \notin {"tables", "advanced"}
               THEN "tables" ELSE pm2
  IN [a EXCEPT !.vision_mode = vm2, !.enable_remote_services = rs2,
               !.processing_mode = pm3]

\* ------------------------------------------------- dispatcher decisions
\* extract_diagram_descriptions, the guard in front of generate_vlm_description
ShouldGenerateVlm(a) ==
  a.enable_remote_services \/ a.vision_mode # "standard"

\* Variant of SelectAnalysis that forgets the enable_remote_services test.
SelectAnalysis_IgnoreRemoteFlag(a) ==
  IF a.vision_mode = "smoldocling" THEN "smoldocling"
  ELSE IF a.vision_mode = "advanced" THEN "external" ELSE "basic"

\* generate_vlm_description, the choice of the analysis function
SelectAnalysis(a) ==
  IF a.vision_mode = "smoldocling" THEN "smoldocling"
  ELSE IF a.vision_mode = "advanced" /\ a.enable_remote_services
       THEN "external"
       ELSE "basic"

\* analyze_with_vlm_pipeline, the three-way branch on the configuration
PipelineBranch(ptype, e) ==
  IF ptype = "external" /\ e.url /\ e.key THEN "external_request"
  ELSE IF ptype = "smoldocling" \/ (~e.url /\ e.fallback_local)
       THEN "analyze_with_smoldocling"
       ELSE "analyze_with_basic_vision"

\* The value None of vision_description (a record, to stay comparable).
NoDescription ==
  [type |-> None, confidence |-> 0, elements |-> "list", strategy |-> None]

\* analyze_with_vlm_pipeline, what follows a failed request
ErrorPayload ==
  [type |-> "error", confidence |-> 0, elements |-> "list",
   strategy |-> "EXTERNAL"]

\* Variant of AfterExternalFailure that sends the request again.
AfterExternalFailure_Retry(e) ==
  IF e.fallback_local THEN "external_request" ELSE "return_error"

AfterExternalFailure(e) ==
  IF e.fallback_local THEN "analyze_with_basic_vision" ELSE "return_error"

\* parse_vlm_response, by the class of the response content
ParseVlmResponse(content) ==
  CASE content = "mermaid_block" ->
         [type |-> "flowchart", confidence |-> 8000, elements |-> "list",
          strategy |-> "EXTERNAL"]
    [] content = "no_diagram_marker" ->
         [type |-> "none", confidence |-> 9000, elements |-> "list",
          strategy |-> "EXTERNAL"]
    [] content = "plain_text" ->
         [type |-> "diagram", confidence |-> 3000, elements |-> "list",
          strategy |-> "EXTERNAL"]
    [] content = "json_elements_null" ->
         [type |-> "diagram", confidence |-> 8000, elements |-> "not_a_list",
          strategy |-> "EXTERNAL"]
    [] OTHER ->
         [type |-> "diagram", confidence |-> 5000, elements |-> "list",
          strategy |-> "EXTERNAL"]

\* analyze_with_smoldocling, the result dictionary on success
SmolDoclingResult ==
  [type |-> "diagram", confidence |-> 7000, elements |-> "list",
   strategy |-> "LOCAL"]

\* analyze_with_basic_vision, by what OCR did
BasicVisionResult(ocr) ==
  CASE ocr = "text_found" ->
         [type |-> "architecture", confidence |-> 7000, elements |-> "list",
          strategy |-> "BASIC"]
    [] ocr = "blank_results" ->
         [type |-> "diagram", confidence |-> 7000, elements |-> "list",
          strategy |-> "BASIC"]
    [] OTHER ->
         [type |-> "diagram", confidence |-> 5000, elements |-> "list",
          strategy |-> "BASIC"]

\* analyze_with_context_data
ContextResult(failed) ==
  IF failed
  THEN [type |-> "chart", confidence |-> 3000, elements |-> "list",
        strategy |-> "CONTEXT"]
  ELSE [type |-> "chart", confidence |-> 8000, elements |-> "list",
        strategy |-> "CONTEXT"]

\* extract_diagram_descriptions, the guard in front of analyze_with_context_data
ShouldUseContext(vd, fig) == vd = NoDescription /\ fig.stext

\* extract_diagram_descriptions, diagram_data before and after the merge
DiagramData(k, vd) ==
  IF vd = NoDescription
  THEN [id |-> k, diagram_type |-> "unknown", confidence |-> 0,
        elements |-> "list", strategy |-> None]
  ELSE [id |-> k, diagram_type |-> vd.type, confidence |-> vd.confidence,
        elements |-> vd.elements, strategy |-> vd.strategy]

\* extract_diagram_descriptions, diagram_data["elements"].extend(text_elements)
MergeRaises(fig, vd) ==
  fig.text /\ vd # NoDescription /\ vd.elements = "not_a_list"

\* ------------------------------------------------------------------- Init
ArgsDomain ==
  [enable_remote_services : BOOLEAN, vision_mode : VisionModes,
   diagram_description : BOOLEAN, chart_data_extraction : BOOLEAN,
   processing_mode : {"basic"}, table_former_mode : {"accurate"}]

InitDispatch ==
  /\ entry \in {"process_document", "extract_diagram_descriptions"}
  /\ caller_args \in ArgsDomain
  /\ entry = "extract_diagram_descriptions" =>
       caller_args.diagram_description /\ ~caller_args.chart_data_extraction
  /\ args = caller_args
  /\ env \in [url : BOOLEAN, key : BOOLEAN, fallback_local : BOOLEAN]
  /\ nfigures \in 0..MaxFigures
  /\ figure = NoFigure
  /\ i = 0
  /\ pc = "start"
  /\ pipeline_type = None
  /\ image_data = None
  /\ trace = <<>>
  /\ http = 0
  /\ ext_outcome = None
  /\ vision_description = NoDescription
  /\ diagrams = <<>>
  /\ raised = FALSE

\* The dispatcher at rest, for the specifications of the other components.
IdleDispatch ==
  /\ entry = None
  /\ caller_args = None
  /\ args = None
  /\ env = None
  /\ nfigures = 0
  /\ figure = NoFigure
  /\ i = 0
  /\ pc = "idle"
  /\ pipeline_type = None
  /\ image_data = None
  /\ trace = <<>>
  /\ http = 0
  /\ ext_outcome = None
  /\ vision_description = NoDescription
  /\ diagrams = <<>>
  /\ raised = FALSE

\* The table renderers at rest.
IdleTable ==
  /\ headers = <<>>
  /\ rows = <<>>
  /\ caption = <<>>
  /\ markdown = <<>>
  /\ csv = <<>>
  /\ html = <<>>
  /\ table_data = [none |-> TRUE]
  /\ tpc = "idle"

IdleConvert ==
  /\ input_diagrams = <<>>
  /\ converted_diagrams = <<>>
  /\ cidx = 0
  /\ mermaid_result = [none |-> TRUE]
  /\ returned = <<>>
  /\ cpc = "idle"

IdleCollect ==
  /\ document = [none |-> TRUE]
  /\ page_number = <<>>
  /\ figures = <<>>
  /\ fig_diagrams = <<>>
  /\ fig_raised = FALSE
  /\ kpc = "idle"

IdleClassify ==
  /\ cl_diagram = [none |-> TRUE]
  /\ cl_calls = <<>>
  /\ clpc = "idle"

IdleDiagramType ==
  /\ ty_figure = [none |-> TRUE]
  /\ ty_result = [none |-> TRUE]
  /\ typc = "idle"

IdleParse ==
  /\ vlm_content = <<>>
  /\ vlm_block = [none |-> TRUE]
  /\ vlm_result = [none |-> TRUE]
  /\ vpc = "idle"

IdleContext ==
  /\ ctx_text = [none |-> TRUE]
  /\ ctx_result = [none |-> TRUE]
  /\ xpc = "idle"

IdleValidate ==
  /\ val_code = <<>>
  /\ val_result = [none |-> TRUE]
  /\ vapc = "idle"

IdleBasicVision ==
  /\ bv_ocr = [none |-> TRUE]
  /\ bv_result = [none |-> TRUE]
  /\ bpc = "idle"

IdleSynthesize ==
  /\ syn_diagram = [none |-> TRUE]
  /\ syn_result = [none |-> TRUE]
  /\ spc = "idle"

IdleResolve ==
  /\ rf_args = [none |-> TRUE]
  /\ rf_result = [none |-> TRUE]
  /\ rfpc = "idle"

IdleIntegrate ==
  /\ mi_pictures = <<>>
  /\ mi_external = FALSE
  /\ images = <<>>
  /\ content_output = <<>>
  /\ mermaid_results = <<>>
  /\ mpc = "idle"

Init ==
  /\ InitDispatch /\ IdleTable /\ IdleConvert /\ IdleCollect
  /\ IdleClassify /\ IdleDiagramType /\ IdleParse /\ IdleContext
  /\ IdleValidate /\ IdleBasicVision /\ IdleSynthesize /\ IdleResolve
  /\ IdleIntegrate

\* ---------------------------------------------------------------- actions
\* process_document: stage 2 resolves the args, then the diagram stage runs
\* only when diagram_description is set.
ProcessDocument ==
  /\ UNCHANGED <<tableVars, convertVars, collectVars, classifyVars,
        diagramTypeVars, parseVars, contextVars, validateVars,
        basicVisionVars, synthesizeVars, resolveVars, integrateVars>>
  /\ pc = "start"
  /\ entry = "process_document"
  /\ args' = ResolveFeatureDependencies(args)
  /\ pc' = IF args'.diagram_description THEN "loop" ELSE "done"
  /\ UNCHANGED <<entry, caller_args, env, nfigures, figure, i, pipeline_type,
                 image_data, trace, http, ext_outcome, vision_description,
                 diagrams, raised>>

\* extract_diagram_descriptions called with the caller's args as they are.
CallExtract ==
  /\ UNCHANGED <<tableVars, convertVars, collectVars, classifyVars,
        diagramTypeVars, parseVars, contextVars, validateVars,
        basicVisionVars, synthesizeVars, resolveVars, integrateVars>>
  /\ pc = "start"
  /\ entry = "extract_diagram_descriptions"
  /\ pc' = "loop"
  /\ UNCHANGED <<entry, caller_args, args, env, nfigures, figure, i,
                 pipeline_type, image_data, trace, http, ext_outcome,
                 vision_description, diagrams, raised>>

\* for i, figure in enumerate(figures): diagram_data is set up and the guard
\* in front of generate_vlm_description is evaluated.
LoopNext ==
  /\ UNCHANGED <<tableVars, convertVars, collectVars, classifyVars,
        diagramTypeVars, parseVars, contextVars, validateVars,
        basicVisionVars, synthesizeVars, resolveVars, integrateVars>>
  /\ pc = "loop"
  /\ i < nfigures
  /\ figure' \in Figures
  /\ i' = i + 1
  /\ trace' = <<>>
  /\ http' = 0
  /\ ext_outcome' = None
  /\ pipeline_type' = None
  /\ image_data' = None
  /\ vision_description' = NoDescription
  /\ pc' = IF ShouldGenerateVlm(args) THEN "generate_vlm_description"
           ELSE "context_check"
  /\ UNCHANGED <<entry, caller_args, args, env, nfigures, diagrams, raised>>

LoopExit ==
  /\ UNCHANGED <<tableVars, convertVars, collectVars, classifyVars,
        diagramTypeVars, parseVars, contextVars, validateVars,
        basicVisionVars, synthesizeVars, resolveVars, integrateVars>>
  /\ pc = "loop"
  /\ i = nfigures
  /\ pc' = "done"
  /\ UNCHANGED <<entry, caller_args, args, env, nfigures, figure, i,
                 pipeline_type, image_data, trace, http, ext_outcome,
                 vision_description, diagrams, raised>>

\* generate_vlm_description up to the call of the analysis function: a figure
\* without bytes gets the built-in 1x1 PNG, so image_data is never empty.
GenerateVlmDescription ==
  /\ UNCHANGED <<tableVars, convertVars, collectVars, classifyVars,
        diagramTypeVars, parseVars, contextVars, validateVars,
        basicVisionVars, synthesizeVars, resolveVars, integrateVars>>
  /\ pc = "generate_vlm_description"
  /\ image_data' = IF figure.raw THEN "figure" ELSE "synthetic"
  /\ LET sel == SelectAnalysis(args) IN
       /\ pipeline_type' = IF sel = "basic" THEN None ELSE sel
       /\ pc' = IF sel = "basic" THEN "analyze_with_basic_vision"
                ELSE "analyze_with_vlm_pipeline"
  /\ UNCHANGED <<entry, caller_args, args, env, nfigures, figure, i, trace,
                 http, ext_outcome, vision_description, diagrams, raised>>

\* analyze_with_vlm_pipeline up to its branch on the configuration.
AnalyzeWithVlmPipeline ==
  /\ UNCHANGED <<tableVars, convertVars, collectVars, classifyVars,
        diagramTypeVars, parseVars, contextVars, validateVars,
        basicVisionVars, synthesizeVars, resolveVars, integrateVars>>
  /\ pc = "analyze_with_vlm_pipeline"
  /\ pc' = PipelineBranch(pipeline_type, env)
  /\ UNCHANGED <<entry, caller_args, args, env, nfigures, figure, i,
                 pipeline_type, image_data, trace, http, ext_outcome,
                 vision_description, diagrams, raised>>

\* analyze_with_vlm_pipeline: the POST request and the handling of its answer.
ExternalRequest ==
  /\ UNCHANGED <<tableVars, convertVars, collectVars, classifyVars,
        diagramTypeVars, parseVars, contextVars, validateVars,
        basicVisionVars, synthesizeVars, resolveVars, integrateVars>>
  /\ pc = "external_request"
  /\ http' = http + 1
  /\ trace' = Append(trace, "EXTERNAL")
  /\ \E o \in ExternalOutcomes :
       /\ ext_outcome' = o
       /\ CASE o \in {"http_error", "network_error"} ->
                 LET nxt == AfterExternalFailure(env) IN
                 IF nxt = "return_error"
                 THEN /\ vision_description' = ErrorPayload
                      /\ pc' = "context_check"
                 ELSE /\ vision_description' = vision_description
                      /\ pc' = nxt
            [] o \in {"no_choices", "malformed_body"} ->
                 /\ vision_description' = vision_description
                 /\ pc' = "analyze_with_basic_vision"
            [] OTHER ->
                 /\ vision_description' = ParseVlmResponse(o)
                 /\ pc' = "context_check"
  /\ UNCHANGED <<entry, caller_args, args, env, nfigures, figure, i,
                 pipeline_type, image_data, diagrams, raised>>

\* analyze_with_smoldocling
AnalyzeWithSmolDocling ==
  /\ UNCHANGED <<tableVars, convertVars, collectVars, classifyVars,
        diagramTypeVars, parseVars, contextVars, validateVars,
        basicVisionVars, synthesizeVars, resolveVars, integrateVars>>
  /\ pc = "analyze_with_smoldocling"
  /\ trace' = Append(trace, "LOCAL")
  /\ \E o \in SmolDoclingOutcomes :
       IF o = "analysed"
       THEN /\ vision_description' = SmolDoclingResult
            /\ pc' = "context_check"
       ELSE /\ vision_description' = vision_description
            /\ pc' = "analyze_with_basic_vision"
  /\ UNCHANGED <<entry, caller_args, args, env, nfigures, figure, i,
                 pipeline_type, image_data, http, ext_outcome, diagrams,
                 raised>>

\* analyze_with_basic_vision
AnalyzeWithBasicVision ==
  /\ UNCHANGED <<tableVars, convertVars, collectVars, classifyVars,
        diagramTypeVars, parseVars, contextVars, validateVars,
        basicVisionVars, synthesizeVars, resolveVars, integrateVars>>
  /\ pc = "analyze_with_basic_vision"
  /\ trace' = Append(trace, "BASIC")
  /\ \E o \in OcrOutcomes : vision_description' = BasicVisionResult(o)
  /\ pc' = "context_check"
  /\ UNCHANGED <<entry, caller_args, args, env, nfigures, figure, i,
                 pipeline_type, image_data, http, ext_outcome, diagrams,
                 raised>>

\* extract_diagram_descriptions: "if not vision_description and
\* hasattr(figure, 'surrounding_text')"
ContextCheck ==
  /\ UNCHANGED <<tableVars, convertVars, collectVars, classifyVars,
        diagramTypeVars, parseVars, contextVars, validateVars,
        basicVisionVars, synthesizeVars, resolveVars, integrateVars>>
  /\ pc = "context_check"
  /\ IF ShouldUseContext(vision_description, figure)
     THEN /\ trace' = Append(trace, "CONTEXT")
          /\ \E failed \in BOOLEAN :
               vision_description' = ContextResult(failed)
     ELSE UNCHANGED <<trace, vision_description>>
  /\ pc' = "merge"
  /\ UNCHANGED <<entry, caller_args, args, env, nfigures, figure, i,
                 pipeline_type, image_data, http, ext_outcome, diagrams,
                 raised>>

\* extract_diagram_descriptions: the merge of the analysis into diagram_data,
\* the extension by the figure's own text elements, and the append.  An
\* exception here is caught by the except around the whole function body.
Merge ==
  /\ UNCHANGED <<tableVars, convertVars, collectVars, classifyVars,
        diagramTypeVars, parseVars, contextVars, validateVars,
        basicVisionVars, synthesizeVars, resolveVars, integrateVars>>
  /\ pc = "merge"
  /\ IF MergeRaises(figure, vision_description)
     THEN /\ raised' = TRUE
          /\ pc' = "done"
          /\ UNCHANGED diagrams
     ELSE /\ diagrams' = Append(diagrams, DiagramData(i, vision_description))
          /\ pc' = "loop"
          /\ UNCHANGED raised
  /\ UNCHANGED <<entry, caller_args, args, env, nfigures, figure, i,
                 pipeline_type, image_data, trace, http, ext_outcome,
                 vision_description>>

Next ==
  \/ ProcessDocument
  \/ CallExtract
  \/ LoopNext
  \/ LoopExit
  \/ GenerateVlmDescription
  \/ AnalyzeWithVlmPipeline
  \/ ExternalRequest
  \/ AnalyzeWithSmolDocling
  \/ AnalyzeWithBasicVision
  \/ ContextCheck
  \/ Merge

Spec == Init /\ [][Next]_vars

\* =================================================================
\* Strings are sequences of one-character strings, so that the text
\* operations of the source (join, split, replace, strip) are computed.
\* =================================================================
Max(a, b) == IF a >= b THEN a ELSE b

\* sep.join(parts)
RECURSIVE Join(_, _)
Join(parts, sep) ==
  IF parts = <<>> THEN <<>>
  ELSE IF Len(parts) = 1 THEN parts[1]
  ELSE parts[1] \o sep \o Join(Tail(parts), sep)

\* the positions from which sep occurs in s
Occurrences(s, sep) ==
  {k \in 1..(Len(s) - Len(sep) + 1) : SubSeq(s, k, k + Len(sep) - 1) = sep}

Min(S) == CHOOSE x \in S : \A y \in S : x <= y

\* s.split(sep), sep not empty: the occurrences are taken from the left and
\* do not overlap
RECURSIVE SplitAt(_, _, _, _)
SplitAt(s, n, occ, start) ==
  LET rest == {k \in occ : k >= start} IN
  IF rest = {} THEN <<SubSeq(s, start, Len(s))>>
  ELSE LET m == Min(rest) IN
       <<SubSeq(s, start, m - 1)>> \o SplitAt(s, n, rest, m + n)

Split(s, sep) == SplitAt(s, Len(sep), Occurrences(s, sep), 1)

\* s.replace(old, new) for a one-character old
RECURSIVE Replace(_, _, _)
Replace(s, old, new) ==
  IF s = <<>> THEN <<>>
  ELSE (IF Head(s) = old THEN new ELSE <<Head(s)>>)
       \o Replace(Tail(s), old, new)

Whitespace == {" ", "\n", "\r", "\t"}

\* s.strip()
RECURSIVE LStrip(_)
LStrip(s) ==
  IF s # <<>> /\ Head(s) \in Whitespace THEN LStrip(Tail(s)) ELSE s

RECURSIVE RStrip(_)
RStrip(s) ==
  IF s # <<>> /\ s[Len(s)] \in Whitespace
  THEN RStrip(SubSeq(s, 1, Len(s) - 1)) ELSE s

Strip(s) == RStrip(LStrip(s))

\* s.startswith(prefix)
StartsWith(s, prefix) ==
  Len(prefix) <= Len(s) /\ SubSeq(s, 1, Len(prefix)) = prefix

\* sub in s
Contains(s, sub) ==
  \E k \in 1..(Len(s) - Len(sub) + 1) : SubSeq(s, k, k + Len(sub) - 1) = sub

\* [x] * n, a negative n giving the empty list as in Python
Repeat(x, n) == [k \in 1..Max(0, n) |-> x]

\* =================================================================
\* table_processing.py: the three renderers
\* =================================================================
MaxCols == 2
MaxRows == 2
MaxRowLen == 2

HeaderNames == <<<<"A">>, <<"B">>, <<"C">>, <<"D">>>>
CellTexts == {<<>>, <<"1">>, <<"2">>}
Captions == {<<>>, <<"T">>}

SeqsUpTo(S, n) == UNION {[1..k -> S] : k \in 0..n}

\* Variant of PadRow that pads one cell too few.
PadRow_OneShort(row, hs) ==
  IF hs # <<>> THEN row \o Repeat(<<>>, Len(hs) - Len(row) - 1) ELSE row

\* "padded_row = row + [""] * (len(headers) - len(row)) if headers else row"
PadRow(row, hs) ==
  IF hs # <<>> THEN row \o Repeat(<<>>, Len(hs) - Len(row)) ELSE row

MdLine(cells) == <<"|", " ">> \o Join(cells, <<" ", "|", " ">>) \o <<" ", "|">>

generate_table_markdown(hs, rs) ==
  IF hs = <<>> /\ rs = <<>> THEN <<>>
  ELSE LET head == IF hs # <<>>
                   THEN <<MdLine(hs), MdLine(Repeat(<<"-", "-", "-">>, Len(hs)))>>
                   ELSE <<>>
           body == [k \in 1..Len(rs) |-> MdLine(PadRow(rs[k], hs))]
       IN Join(head \o body, <<"\n">>)

\* csv.writer(quoting=csv.QUOTE_MINIMAL): a field is quoted when it holds the
\* delimiter, the quote character or a line break, quotes inside it being
\* doubled; a row that is a single empty field is written as "".
CsvNeedsQuote(f) == \E k \in 1..Len(f) : f[k] \in {",", "\"", "\n", "\r"}

CsvField(f) ==
  IF CsvNeedsQuote(f)
  THEN <<"\"">> \o Replace(f, "\"", <<"\"", "\"">>) \o <<"\"">>
  ELSE f

CsvRow(cells) ==
  (IF cells = <<<<>>>> THEN <<"\"", "\"">>
   ELSE Join([k \in 1..Len(cells) |-> CsvField(cells[k])], <<",">>))
  \o <<"\r", "\n">>

generate_table_csv(hs, rs) ==
  IF hs = <<>> /\ rs = <<>> THEN <<>>
  ELSE LET head == IF hs # <<>> THEN <<CsvRow(hs)>> ELSE <<>>
           body == [k \in 1..Len(rs) |-> CsvRow(PadRow(rs[k], hs))]
       IN Strip(Join(head \o body, <<>>))

\* Variant of escape_html that replaces & last.
escape_html_AmpersandLast(text) ==
  Replace(Replace(Replace(Replace(Replace(text,
    "<", <<"&","l","t",";">>),
    ">", <<"&","g","t",";">>),
    "\"", <<"&","q","u","o","t",";">>),
    "'", <<"&","#","x","2","7",";">>),
    "&", <<"&","a","m","p",";">>)

escape_html(text) ==
  Replace(Replace(Replace(Replace(Replace(text,
    "&", <<"&","a","m","p",";">>),
    "<", <<"&","l","t",";">>),
    ">", <<"&","g","t",";">>),
    "\"", <<"&","q","u","o","t",";">>),
    "'", <<"&","#","x","2","7",";">>)

HtmlTableOpen == <<"<","t","a","b","l","e",">">>
HtmlTableClose == <<"<","/","t","a","b","l","e",">">>
HtmlCaptionOpen == <<" "," ","<","c","a","p","t","i","o","n",">">>
HtmlCaptionClose == <<"<","/","c","a","p","t","i","o","n",">">>
HtmlTheadOpen == <<" "," ","<","t","h","e","a","d",">">>
HtmlTheadClose == <<" "," ","<","/","t","h","e","a","d",">">>
HtmlTbodyOpen == <<" "," ","<","t","b","o","d","y",">">>
HtmlTbodyClose == <<" "," ","<","/","t","b","o","d","y",">">>
HtmlTrOpen == <<" "," "," "," ","<","t","r",">">>
HtmlTrClose == <<" "," "," "," ","<","/","t","r",">">>
HtmlThOpen == <<" "," "," "," "," "," ","<","t","h",">">>
HtmlThClose == <<"<","/","t","h",">">>
HtmlTdOpen == <<" "," "," "," "," "," ","<","t","d",">">>
HtmlTdClose == <<"<","/","t","d",">">>

HtmlRow(cells) ==
  <<HtmlTrOpen>>
  \o [k \in 1..Len(cells) |-> HtmlTdOpen \o escape_html(cells[k]) \o HtmlTdClose]
  \o <<HtmlTrClose>>

RECURSIVE Flatten(_)
Flatten(seqs) == IF seqs = <<>> THEN <<>> ELSE Head(seqs) \o Flatten(Tail(seqs))

generate_table_html(hs, rs, cap) ==
  IF hs = <<>> /\ rs = <<>> THEN <<>>
  ELSE LET capPart == IF cap # <<>>
                      THEN <<HtmlCaptionOpen \o escape_html(cap) \o HtmlCaptionClose>>
                      ELSE <<>>
           headPart == IF hs # <<>>
                       THEN <<HtmlTheadOpen, HtmlTrOpen>>
                            \o [k \in 1..Len(hs) |->
                                  HtmlThOpen \o escape_html(hs[k]) \o HtmlThClose]
                            \o <<HtmlTrClose, HtmlTheadClose>>
                       ELSE <<>>
           bodyPart == IF rs # <<>>
                       THEN <<HtmlTbodyOpen>>
                            \o Flatten([k \in 1..Len(rs) |-> HtmlRow(PadRow(rs[k], hs))])
                            \o <<HtmlTbodyClose>>
                       ELSE <<>>
       IN Join(<<HtmlTableOpen>> \o capPart \o headPart \o bodyPart
               \o <<HtmlTableClose>>, <<"\n">>)

\* A table as the normalizer hands it to the renderers: headers, rows of
\* string cells of any width, and a caption.
InitTable ==
  /\ \E n \in 0..MaxCols : headers = SubSeq(HeaderNames, 1, n)
  /\ rows \in SeqsUpTo(SeqsUpTo(CellTexts, MaxRowLen), MaxRows)
  /\ caption \in Captions
  /\ markdown = <<>>
  /\ csv = <<>>
  /\ html = <<>>
  /\ table_data = [none |-> TRUE]
  /\ tpc = "generate_table_markdown"

\* extract_tables / extract_table_from_element, "Generate export formats"
GenerateTableMarkdown ==
  /\ tpc = "generate_table_markdown"
  /\ markdown' = generate_table_markdown(headers, rows)
  /\ tpc' = "generate_table_csv"
  /\ UNCHANGED <<headers, rows, caption, csv, html, table_data>>
  /\ UNCHANGED <<dispatchVars, convertVars, collectVars, classifyVars,
        diagramTypeVars, parseVars, contextVars, validateVars,
        basicVisionVars, synthesizeVars, resolveVars, integrateVars>>

GenerateTableCsv ==
  /\ tpc = "generate_table_csv"
  /\ csv' = generate_table_csv(headers, rows)
  /\ tpc' = "generate_table_html"
  /\ UNCHANGED <<headers, rows, caption, markdown, html, table_data>>
  /\ UNCHANGED <<dispatchVars, convertVars, collectVars, classifyVars,
        diagramTypeVars, parseVars, contextVars, validateVars,
        basicVisionVars, synthesizeVars, resolveVars, integrateVars>>

GenerateTableHtml ==
  /\ tpc = "generate_table_html"
  /\ html' = generate_table_html(headers, rows, caption)
  /\ tpc' = "done"
  /\ UNCHANGED <<headers, rows, caption, markdown, csv, table_data>>
  /\ UNCHANGED <<dispatchVars, convertVars, collectVars, classifyVars,
        diagramTypeVars, parseVars, contextVars, validateVars,
        basicVisionVars, synthesizeVars, resolveVars, integrateVars>>

\* "[cell.strip() for cell in line.split('|') if cell.strip()]"
ParseCells(line) ==
  LET cells == Split(line, <<"|">>)
      stripped == [k \in 1..Len(cells) |-> Strip(cells[k])]
  IN SelectSeq(stripped, LAMBDA cell : cell # <<>>)

\* extract_table_from_element for an element whose content is the string
\* content and whose caption is cap: the first line gives the headers, the
\* second is skipped, each later line with a '|' and a non-empty cell gives
\* a row
extract_table_from_element(content, cap) ==
  LET lines == Split(Strip(content), <<"\n">>)
      parsed == content # <<>> /\ Len(lines) >= 2
      hs == IF parsed THEN ParseCells(lines[1]) ELSE <<>>
      data_lines == SubSeq(lines, 3, Len(lines))
      candidates == SelectSeq(data_lines, LAMBDA line : Contains(line, <<"|">>))
      parsed_rows == [k \in 1..Len(candidates) |-> ParseCells(candidates[k])]
      rs == IF parsed THEN SelectSeq(parsed_rows, LAMBDA row : row # <<>>)
            ELSE <<>>
  IN [caption |-> cap,
      headers |-> hs,
      rows |-> rs,
      markdown |-> IF parsed THEN generate_table_markdown(hs, rs) ELSE <<>>,
      csv |-> IF parsed THEN generate_table_csv(hs, rs) ELSE <<>>,
      html |-> IF parsed THEN generate_table_html(hs, rs, cap) ELSE <<>>]

\* the Markdown that was rendered is the content of a table element that
\* extract_table_from_element reads back
ExtractTableFromElement ==
  /\ tpc = "done"
  /\ table_data' = extract_table_from_element(markdown, caption)
  /\ tpc' = "extracted"
  /\ UNCHANGED <<headers, rows, caption, markdown, csv, html>>
  /\ UNCHANGED <<dispatchVars, convertVars, collectVars, classifyVars,
        diagramTypeVars, parseVars, contextVars, validateVars,
        basicVisionVars, synthesizeVars, resolveVars, integrateVars>>

NextTable ==
  \/ GenerateTableMarkdown
  \/ GenerateTableCsv
  \/ GenerateTableHtml
  \/ ExtractTableFromElement

InitT ==
  /\ IdleDispatch /\ InitTable /\ IdleConvert /\ IdleCollect
  /\ IdleClassify /\ IdleDiagramType /\ IdleParse /\ IdleContext
  /\ IdleValidate /\ IdleBasicVision /\ IdleSynthesize /\ IdleResolve
  /\ IdleIntegrate

\* ------------------------------------------- tables with text to be escaped
MaxTextLen == 2

EscapeAlphabet == {"&", "<", ">", "\"", "'", "a"}

EscapeTexts == SeqsUpTo(EscapeAlphabet, MaxTextLen)

\* A one-column table whose header, cell and caption hold the characters
\* that escape_html replaces.
InitEscape ==
  /\ \E h \in EscapeTexts : headers = <<h>>
  /\ \E c \in EscapeTexts : rows = <<<<c>>>>
  /\ caption \in {<<>>, rows[1][1]}
  /\ markdown = <<>>
  /\ csv = <<>>
  /\ html = <<>>
  /\ table_data = [none |-> TRUE]
  /\ tpc = "generate_table_markdown"

InitE ==
  /\ IdleDispatch /\ InitEscape /\ IdleConvert /\ IdleCollect
  /\ IdleClassify /\ IdleDiagramType /\ IdleParse /\ IdleContext
  /\ IdleValidate /\ IdleBasicVision /\ IdleSynthesize /\ IdleResolve
  /\ IdleIntegrate

SpecEscape == InitE /\ [][NextTable]_vars

SpecTable == InitT /\ [][NextTable]_vars

\* =================================================================
\* docling_processor.py: convert_diagrams_to_mermaid and what it calls
\* =================================================================
MaxDiagrams == 2

\* Python values whose type the code does not fix are tagged: a str, a
\* float (in units of 1/10000) or None
Str(s) == [str |-> s]
Float(x) == [float |-> x]
PyNone == [none |-> TRUE]
IsStr(x) == "str" \in DOMAIN x
IsFloat(x) == "float" \in DOMAIN x

UpperToLower ==
  ("A" :> "a") @@ ("B" :> "b") @@ ("C" :> "c") @@ ("D" :> "d") @@ ("E" :> "e")
  @@ ("F" :> "f") @@ ("G" :> "g") @@ ("H" :> "h") @@ ("I" :> "i")
  @@ ("J" :> "j") @@ ("K" :> "k") @@ ("L" :> "l") @@ ("M" :> "m")
  @@ ("N" :> "n") @@ ("O" :> "o") @@ ("P" :> "p") @@ ("Q" :> "q")
  @@ ("R" :> "r") @@ ("S" :> "s") @@ ("T" :> "t") @@ ("U" :> "u")
  @@ ("V" :> "v") @@ ("W" :> "w") @@ ("X" :> "x") @@ ("Y" :> "y")
  @@ ("Z" :> "z")

\* s.lower()
Lower(s) ==
  [k \in 1..Len(s) |->
     IF s[k] \in DOMAIN UpperToLower THEN UpperToLower[s[k]] ELSE s[k]]

\* s.count(c) for a one-character c
Count(s, c) == Cardinality({k \in 1..Len(s) : s[k] = c})

\* any(keyword in s for keyword in keywords)
ContainsAny(s, keywords) ==
  \E k \in 1..Len(keywords) : Contains(s, keywords[k])

\* the contents of the elements that are dicts with a 'content' key
ElementContents(elements) ==
  LET withContent == SelectSeq(elements, LAMBDA e : "content" \in DOMAIN e)
  IN [k \in 1..Len(withContent) |-> withContent[k].content]

\* ------------------------------------------ classify_diagram_vs_screenshot
diagram_keywords ==
  <<<<"a","r","c","h","i","t","e","c","t","u","r","e">>,
      <<"o","v","e","r","v","i","e","w">>, <<"f","l","o","w">>,
      <<"d","i","a","g","r","a","m">>, <<"p","i","p","e","l","i","n","e">>,
    <<"i","n","f","r","a","s","t","r","u","c","t","u","r","e">>,
        <<"f","l","o","w","c","h","a","r","t">>, <<"p","r","o","c","e","s","s">>,
        <<"w","o","r","k","f","l","o","w">>, <<"s","y","s","t","e","m">>,
    <<"c","o","m","p","o","n","e","n","t">>, <<"s","e","r","v","i","c","e">>,
        <<"d","a","t","a","b","a","s","e">>, <<"a","p","i">>,
        <<"n","e","t","w","o","r","k">>, <<"s","e","q","u","e","n","c","e">>,
    <<"r","e","l","a","t","i","o","n","s","h","i","p">>,
        <<"s","t","r","u","c","t","u","r","e">>>>

screenshot_keywords ==
  <<<<"s","c","r","e","e","n","s","h","o","t">>, <<"t","e","r","m","i","n","a","l">>,
      <<"c","o","n","s","o","l","e">>, <<"u","i">>,
      <<"i","n","t","e","r","f","a","c","e">>, <<"b","r","o","w","s","e","r">>,
    <<"w","i","n","d","o","w">>, <<"d","e","s","k","t","o","p">>,
        <<"m","e","n","u">>, <<"b","u","t","t","o","n">>, <<"f","o","r","m">>,
        <<"d","i","a","l","o","g">>, <<"p","o","p","u","p">>,
    <<"c","o","n","f","i","g","u","r","a","t","i","o","n">>,
        <<"s","e","t","t","i","n","g","s">>, <<"d","a","s","h","b","o","a","r","d">>,
        <<"o","u","t","p","u","t">>, <<"r","e","s","u","l","t">>>>

\* sum(1 for keyword in keywords if keyword in text_content)
KeywordScore(keywords, text_content) ==
  Cardinality({k \in 1..Len(keywords) : Contains(text_content, keywords[k])})

\* min(0.9, 0.7 + d * 0.1) in IEEE doubles, d >= 1: 0.7 + 0.1 is
\* 0.7999999999999999, 0.7 + 0.2 is 0.8999999999999999, and from d = 3 on
\* the sum is at least 0.9
\* Variant of KeywordConfidence whose first two values are swapped.
KeywordConfidence_Swapped(d) ==
  IF d = 1 THEN 8999 ELSE IF d = 2 THEN 7999 ELSE 9000

KeywordConfidence(d) == IF d = 1 THEN 7999 ELSE IF d = 2 THEN 8999 ELSE 9000

\* the classifier's "text_content", for a record whose element contents are
\* strings
classifier_text(diagram) ==
  LET contents == ElementContents(diagram.elements)
      diagram_type == Lower(diagram.diagram_type)
      description == Lower(diagram.description)
      caption_lower == Lower(diagram.caption)
      element_text == [k \in 1..Len(contents) |-> Lower(contents[k].str)]
  IN Lower(diagram_type \o <<" ">> \o description \o <<" ">> \o caption_lower)
     \o <<" ">> \o Join(element_text, <<" ">>)

classify_diagram_vs_screenshot(diagram) ==
  LET contents == ElementContents(diagram.elements) IN
  IF \E k \in 1..Len(contents) : ~IsStr(contents[k])
  THEN \* element['content'].lower() raises, "return True, 0.5"
       [is_diagram |-> TRUE, confidence |-> 5000]
  ELSE
    LET diagram_type == Lower(diagram.diagram_type)
        diagram_score == KeywordScore(diagram_keywords, classifier_text(diagram))
        screenshot_score ==
          KeywordScore(screenshot_keywords, classifier_text(diagram))
    IN IF diagram_score > screenshot_score
       THEN [is_diagram |-> TRUE,
             confidence |-> KeywordConfidence(diagram_score - screenshot_score)]
       ELSE IF screenshot_score > diagram_score
       THEN [is_diagram |-> FALSE,
             confidence |-> KeywordConfidence(screenshot_score - diagram_score)]
       ELSE IF diagram_type \in {<<"f","l","o","w","c","h","a","r","t">>,
           <<"a","r","c","h","i","t","e","c","t","u","r","e">>,
           <<"d","i","a","g","r","a","m">>, <<"c","h","a","r","t">>}
       THEN [is_diagram |-> TRUE, confidence |-> 7000]
       ELSE IF diagram_type \in {<<"s","c","r","e","e","n","s","h","o","t">>,
           <<"i","n","t","e","r","f","a","c","e">>, <<"u","i">>}
       THEN [is_diagram |-> FALSE, confidence |-> 7000]
       ELSE [is_diagram |-> TRUE, confidence |-> 6000]

\* ------------------------------------------------------ clean_mermaid_text
Unknown == <<"U","n","k","n","o","w","n">>

clean_mermaid_text(text) ==
  IF text = <<>> THEN Unknown
  ELSE
    LET c0 == Strip(text)
        c1 == Replace(c0, "\"", <<"'">>)
        c2 == Replace(c1, "[", <<"(">>)
        c3 == Replace(c2, "]", <<")">>)
        c4 == Replace(c3, "{", <<"(">>)
        c5 == Replace(c4, "}", <<")">>)
        c6 == Replace(c5, "|", <<"-">>)
        c7 == Replace(c6, "\n", <<" ">>)
        c8 == Replace(c7, "\r", <<" ">>)
        cleaned == IF Len(c8) > 50 THEN SubSeq(c8, 1, 47) \o <<".",".",".">> ELSE c8
    IN IF Strip(cleaned) = <<>> THEN Unknown ELSE Strip(cleaned)

\* ------------------------------------------------------ the four generators
Letters ==
  <<"A", "B", "C", "D", "E", "F", "G", "H", "I", "J", "K", "L", "M", "N",
    "O", "P", "Q", "R", "S", "T", "U", "V", "W", "X", "Y", "Z">>

\* the backquote character, which a string of this language cannot hold
Backquote == "backquote"

\* the characters that follow 'Z' in ASCII
AfterLetters ==
  <<"[", "\\", "]", "^", "_", Backquote>>
  \o [k \in 1..Len(Letters) |-> UpperToLower[Letters[k]]]

\* chr(ord('A') + n), for the n < 58 that the bounded inputs produce
NodeLetter(n) == (Letters \o AfterLetters)[n + 1]

\* f'    {node_letter}<open>{clean_mermaid_text(text)}<close>'
NodeLine(n, open, text, close) ==
  <<" "," "," "," ">> \o <<NodeLetter(n)>> \o open \o clean_mermaid_text(text) \o close

\* f'    {from_node} --> {to_node}'
Connection(a, b) == <<" "," "," "," ">> \o <<NodeLetter(a)>> \o <<" ","-","-",">"," ">> \o <<NodeLetter(b)>>

\* the connections of range(n - 1), node i to node i + 1
LinearFlow(n) == [k \in 1..(n - 1) |-> Connection(k - 1, k)]

IsDecisionText(text) ==
  \/ Contains(text, <<"?">>)
  \/ ContainsAny(Lower(text), <<<<"i","f">>, <<"d","e","c","i","s","i","o","n">>,
      <<"c","h","o","o","s","e">>>>)

IsStepText(text) == ~IsDecisionText(text)

generate_flowchart_mermaid(description, text_elements) ==
  LET steps == SelectSeq(text_elements, IsStepText)
      decisions == SelectSeq(text_elements, IsDecisionText)
      mermaid_lines ==
        <<<<"f","l","o","w","c","h","a","r","t"," ","T","D">>>>
        \o [k \in 1..Len(steps) |-> NodeLine(k - 1, <<"[">>, steps[k], <<"]">>)]
        \o [k \in 1..Len(decisions) |->
              NodeLine(Len(steps) + k - 1, <<"{","{">>, decisions[k], <<"}","}">>)]
        \o (IF Len(steps) > 1 THEN LinearFlow(Len(steps)) ELSE <<>>)
        \o (IF decisions # <<>> /\ steps # <<>>
            THEN <<Connection(Len(steps) - 1, Len(steps))>> ELSE <<>>)
  IN Join(mermaid_lines, <<"\n">>)

IsDatabaseText(text) ==
  ContainsAny(Lower(text), <<<<"d","a","t","a","b","a","s","e">>, <<"d","b">>,
      <<"s","t","o","r","a","g","e">>>>)

\* Variant of IsServiceText that knows the keyword server only.
IsServiceText_ServerOnly(text) ==
  /\ ~IsDatabaseText(text)
  /\ ContainsAny(Lower(text), <<<<"s","e","r","v","e","r">>>>)

IsServiceText(text) ==
  /\ ~IsDatabaseText(text)
  /\ ContainsAny(Lower(text), <<<<"s","e","r","v","i","c","e">>, <<"a","p","i">>,
      <<"s","e","r","v","e","r">>>>)

IsComponentText(text) == ~IsDatabaseText(text) /\ ~IsServiceText(text)

ClassDefLines ==
  <<<<>>,
    <<" "," "," "," ","c","l","a","s","s","D","e","f"," ","c","o","m","p","u","t","e"," ","f","i","l","l",":","#","F","F","9","9","0","0",",","c","o","l","o","r",":","#","f","f","f">>,
    <<" "," "," "," ","c","l","a","s","s","D","e","f"," ","s","t","o","r","a","g","e"," ","f","i","l","l",":","#","5","6","9","A","3","1",",","c","o","l","o","r",":","#","f","f","f">>,
    <<" "," "," "," ","c","l","a","s","s","D","e","f"," ","d","a","t","a","b","a","s","e"," ","f","i","l","l",":","#","2","0","5","0","8","1",",","c","o","l","o","r",":","#","f","f","f">>,
    <<" "," "," "," ","c","l","a","s","s","D","e","f"," ","n","e","t","w","o","r","k","i","n","g"," ","f","i","l","l",":","#","8","C","4","F","F","F",",","c","o","l","o","r",":","#","f","f","f">>>>

generate_architecture_mermaid(description, text_elements) ==
  LET components == SelectSeq(text_elements, IsComponentText)
      services == SelectSeq(text_elements, IsServiceText)
      databases == SelectSeq(text_elements, IsDatabaseText)
      service_start == Len(components)
      db_start == Len(components) + Len(services)
      total_nodes == Len(components) + Len(services) + Len(databases)
      mermaid_lines ==
        <<<<"g","r","a","p","h"," ","T","D">>>>
        \o [k \in 1..Len(components) |->
              NodeLine(k - 1, <<"[">>, components[k], <<"]">>)]
        \o [k \in 1..Len(services) |->
              NodeLine(service_start + k - 1, <<"(">>, services[k], <<")">>)]
        \o [k \in 1..Len(databases) |->
              NodeLine(db_start + k - 1, <<"[","(">>, databases[k], <<")","]">>)]
        \o LinearFlow(total_nodes)
        \o ClassDefLines
  IN Join(mermaid_lines, <<"\n">>)

Digits == {"0", "1", "2", "3", "4", "5", "6", "7", "8", "9"}

\* the last index of the run of digits that starts at p, p - 1 if there is none
RECURSIVE DigitRunEnd(_, _)
DigitRunEnd(s, p) ==
  IF p <= Len(s) /\ s[p] \in Digits THEN DigitRunEnd(s, p + 1) ELSE p - 1

\* the last index of the match of \d+\.?\d* that starts at the digit s[p]
NumberEnd(s, p) ==
  LET e1 == DigitRunEnd(s, p)
      e2 == IF e1 < Len(s) /\ s[e1 + 1] = "." THEN e1 + 1 ELSE e1
  IN DigitRunEnd(s, e2 + 1)

\* re.findall(r'\d+\.?\d*', s[p:])
RECURSIVE FindNumbers(_, _)
FindNumbers(s, p) ==
  IF p > Len(s) THEN <<>>
  ELSE IF s[p] \in Digits
  THEN <<SubSeq(s, p, NumberEnd(s, p))>> \o FindNumbers(s, NumberEnd(s, p) + 1)
  ELSE FindNumbers(s, p + 1)

\* re.sub(r'\d+\.?\d*', '', s[p:])
RECURSIVE RemoveNumbers(_, _)
RemoveNumbers(s, p) ==
  IF p > Len(s) THEN <<>>
  ELSE IF s[p] \in Digits THEN RemoveNumbers(s, NumberEnd(s, p) + 1)
  ELSE <<s[p]>> \o RemoveNumbers(s, p + 1)

RECURSIVE StripLeadingZeros(_)
StripLeadingZeros(s) ==
  IF Len(s) > 1 /\ Head(s) = "0" THEN StripLeadingZeros(Tail(s)) ELSE s

RECURSIVE StripTrailingZeros(_)
StripTrailingZeros(s) ==
  IF Len(s) > 1 /\ s[Len(s)] = "0"
  THEN StripTrailingZeros(SubSeq(s, 1, Len(s) - 1)) ELSE s

\* f'{float(n)}' for a match n of \d+\.?\d*, for the values below 1e16 with
\* few digits that the bounded inputs produce: "150" gives 150.0, "7.50"
\* gives 7.5, "1." gives 1.0
FloatText(n) ==
  LET parts == Split(n, <<".">>)
      whole == StripLeadingZeros(parts[1])
      fraction == IF Len(parts) > 1 /\ parts[2] # <<>>
                  THEN StripTrailingZeros(parts[2]) ELSE <<"0">>
  IN whole \o <<".">> \o fraction

generate_chart_mermaid(description, text_elements) ==
  LET numbers ==
        Flatten([k \in 1..Len(text_elements) |->
                   LET found == FindNumbers(text_elements[k], 1)
                   IN [j \in 1..Len(found) |-> FloatText(found[j])]])
      non_numeric ==
        [k \in 1..Len(text_elements) |->
           Strip(RemoveNumbers(text_elements[k], 1))]
      labels == SelectSeq(non_numeric, LAMBDA l : Len(l) > 1)
      pairs == Min({5, Len(labels), Len(numbers)})
      mermaid_lines ==
        <<<<"g","r","a","p","h"," ","L","R">>>>
        \o [k \in 1..pairs |->
              <<" "," "," "," ">> \o <<NodeLetter(k - 1)>> \o <<"[","\"">>
              \o clean_mermaid_text(labels[k]) \o <<":"," ">> \o numbers[k] \o <<"\"","]">>]
        \o LinearFlow(Min({Len(labels), Len(numbers)}))
  IN IF numbers # <<>> /\ labels # <<>>
     THEN Join(mermaid_lines, <<"\n">>)
     ELSE <<"g","r","a","p","h"," ","T","D","\n"," "," "," "," ","A","[","\"">> \o clean_mermaid_text(description) \o <<"\"","]">>

generate_generic_mermaid(description, text_elements, diagram_type) ==
  LET text_content ==
        Lower(description \o <<" ">> \o Join(text_elements, <<" ">>))
      shown == SubSeq(text_elements, 1, Min({6, Len(text_elements)}))
      mermaid_lines ==
        <<<<"g","r","a","p","h"," ","T","D">>>>
        \o (IF text_elements # <<>>
            THEN [k \in 1..Len(shown) |->
                    NodeLine(k - 1, <<"[">>, shown[k], <<"]">>)]
                 \o LinearFlow(Len(shown))
            ELSE <<NodeLine(0, <<"[">>, description, <<"]">>)>>)
  IN IF ContainsAny(text_content, <<<<"f","l","o","w">>,
      <<"p","r","o","c","e","s","s">>, <<"s","t","e","p">>,
      <<"s","e","q","u","e","n","c","e">>>>)
     THEN generate_flowchart_mermaid(description, text_elements)
     ELSE IF ContainsAny(text_content,
                         <<<<"s","y","s","t","e","m">>,
                             <<"a","r","c","h","i","t","e","c","t","u","r","e">>,
                             <<"c","o","m","p","o","n","e","n","t">>,
                             <<"s","e","r","v","i","c","e">>>>)
     THEN generate_architecture_mermaid(description, text_elements)
     ELSE Join(mermaid_lines, <<"\n">>)

\* ----------------------------------------------------- generate_mermaid_code
generate_mermaid_code(diagram) ==
  LET contents == ElementContents(diagram.elements)
      text_elements == [k \in 1..Len(contents) |-> contents[k].str]
      mermaid_code ==
        IF diagram.diagram_type = <<"f","l","o","w","c","h","a","r","t">>
        THEN generate_flowchart_mermaid(diagram.description, text_elements)
        ELSE IF diagram.diagram_type = <<"a","r","c","h","i","t","e","c","t","u","r","e">>
        THEN generate_architecture_mermaid(diagram.description, text_elements)
        ELSE IF diagram.diagram_type = <<"c","h","a","r","t">>
        THEN generate_chart_mermaid(diagram.description, text_elements)
        ELSE generate_generic_mermaid(diagram.description, text_elements,
                                      diagram.diagram_type)
  IN IF \E k \in 1..Len(contents) : ~IsStr(contents[k])
     THEN \* the generator raises on the content, catches it and returns ""
          [success |-> FALSE, mermaid_code |-> <<>>]
     ELSE IF mermaid_code # <<>>
     THEN [success |-> TRUE, mermaid_code |-> mermaid_code]
     ELSE [success |-> FALSE, mermaid_code |-> <<>>]

\* --------------------------------------------------- validate_mermaid_syntax
valid_types ==
  <<<<"g","r","a","p","h">>, <<"f","l","o","w","c","h","a","r","t">>,
      <<"s","e","q","u","e","n","c","e","d","i","a","g","r","a","m">>,
      <<"c","l","a","s","s","D","i","a","g","r","a","m">>,
      <<"s","t","a","t","e","D","i","a","g","r","a","m">>,
    <<"e","r","D","i","a","g","r","a","m">>>>

\* Variant of NodeMarkers without the open link.
NodeMarkers_NoOpenLink == <<<<"[">>, <<"(">>, <<"{">>, <<"-","-",">">>>>

NodeMarkers == <<<<"[">>, <<"(">>, <<"{">>, <<"-","-",">">>, <<"-","-","-">>>>

validate_mermaid_syntax(mermaid_code) ==
  IF mermaid_code = <<>> \/ Strip(mermaid_code) = <<>> THEN FALSE
  ELSE
    LET lines == Split(Strip(mermaid_code), <<"\n">>)
        first_line == Lower(Strip(lines[1]))
        bracket_count == Count(mermaid_code, "[") - Count(mermaid_code, "]")
        paren_count == Count(mermaid_code, "(") - Count(mermaid_code, ")")
        brace_count == Count(mermaid_code, "{") - Count(mermaid_code, "}")
    IN /\ \E k \in 1..Len(valid_types) :
            StartsWith(first_line, Lower(valid_types[k]))
       /\ bracket_count = 0 /\ paren_count = 0 /\ brace_count = 0
       /\ \E k \in 2..Len(lines) :
            LET line == Strip(lines[k])
            IN /\ line # <<>>
               /\ ~StartsWith(line, <<"c","l","a","s","s","D","e","f">>)
               /\ ~StartsWith(line, <<"c","l","a","s","s"," ">>)
               /\ ContainsAny(line, NodeMarkers)

\* ------------------------------------------------ the records that are converted
\* Records as extract_diagram_descriptions builds them: diagram_type,
\* description, elements and confidence come from the analysis of the figure
\* (from the JSON of a vision model they can be any JSON value), caption from
\* the figure. No record carries a mermaid_code key.
DiagramSamples ==
  <<
    [diagram_type |-> <<"f","l","o","w","c","h","a","r","t">>,
     description |-> <<>>,
     caption |-> <<>>,
     elements |-> <<[content |-> Str(<<"S","t","a","r","t">>)],
                    [content |-> Str(<<"R","e","a","d","y","?">>)]>>,
     confidence |-> Float(9000)],
    [diagram_type |-> <<"f","l","o","w","c","h","a","r","t">>,
     description |-> <<>>,
     caption |-> <<>>,
     elements |-> <<[content |-> Str(<<"L","o","a","d"," ","(","x">>)]>>,
     confidence |-> Float(8000)],
    [diagram_type |-> <<"f","l","o","w","c","h","a","r","t">>,
     description |-> <<>>,
     caption |-> <<>>,
     elements |-> <<>>,
     confidence |-> Float(9000)],
    [diagram_type |-> <<"a","r","c","h","i","t","e","c","t","u","r","e">>,
     description |-> <<"S","y","s","t","e","m"," ","o","v","e","r","v",
                       "i","e","w">>,
     caption |-> <<>>,
     elements |-> <<[content |-> Str(<<"A","P","I"," ","s","e","r","v",
                      "i","c","e">>)],
                    [content |-> Str(<<"U","s","e","r"," ","D","B">>)],
                    [content |-> Str(<<"C","l","i","e","n","t">>)]>>,
     confidence |-> Float(9000)],
    [diagram_type |-> <<"a","r","c","h","i","t","e","c","t","u","r","e">>,
     description |-> <<"S","y","s","t","e","m"," ","o","v","e","r","v",
                       "i","e","w">>,
     caption |-> <<>>,
     elements |-> <<[content |-> Str(<<"a","p","i"," ","[","v","2">>)]>>,
     confidence |-> Float(9000)],
    [diagram_type |-> <<"c","h","a","r","t">>,
     description |-> <<"S","a","l","e","s"," ","p","i","p","e","l","i",
                       "n","e"," ","o","v","e","r","v","i","e","w">>,
     caption |-> <<>>,
     elements |-> <<[content |-> Str(<<"R","e","v","e","n","u","e"," ",
                      "1","5","0">>)],
                    [content |-> Str(<<"C","o","s","t"," ","7",".","5",
                      "0">>)]>>,
     confidence |-> Float(8000)],
    [diagram_type |-> <<"c","h","a","r","t">>,
     description |-> <<"N","e","t","w","o","r","k"," ","s","t","r","u",
                       "c","t","u","r","e"," ","(","2","0","2","0"," ","[",
                       "e","s","t">>,
     caption |-> <<>>,
     elements |-> <<>>,
     confidence |-> Float(8000)],
    [diagram_type |-> <<"u","n","k","n","o","w","n">>,
     description |-> <<"A","P","I"," ","d","a","t","a","b","a","s","e">>,
     caption |-> <<>>,
     elements |-> <<>>,
     confidence |-> Float(9000)],
    [diagram_type |-> <<"u","n","k","n","o","w","n">>,
     description |-> <<"S","e","t","t","i","n","g","s"," ","d","i","a",
                       "l","o","g">>,
     caption |-> <<>>,
     elements |-> <<>>,
     confidence |-> Float(9000)],
    [diagram_type |-> <<"a","r","c","h","i","t","e","c","t","u","r","e">>,
     description |-> <<>>,
     caption |-> <<>>,
     elements |-> <<>>,
     confidence |-> Float(9000)],
    [diagram_type |-> <<"f","l","o","w","c","h","a","r","t">>,
     description |-> <<>>,
     caption |-> <<>>,
     elements |-> <<[content |-> Str(<<"S","t","a","r","t">>)]>>,
     confidence |-> Float(3000)],
    [diagram_type |-> <<"f","l","o","w","c","h","a","r","t">>,
     description |-> <<>>,
     caption |-> <<>>,
     elements |-> <<[content |-> Str(<<"S","t","a","r","t">>)]>>,
     confidence |-> PyNone],
    [diagram_type |-> <<"f","l","o","w","c","h","a","r","t">>,
     description |-> <<>>,
     caption |-> <<>>,
     elements |-> <<[content |-> PyNone]>>,
     confidence |-> Float(9000)],
    [diagram_type |-> <<"f","l","o","w","c","h","a","r","t">>,
     description |-> <<>>,
     caption |-> <<"F","i","g"," ","1">>,
     elements |-> <<Str(<<"x">>),
                    [label |-> Str(<<"y">>)],
                    [content |-> Str(<<"B","e","g","i","n">>)]>>,
     confidence |-> Float(9000)],
    [diagram_type |-> <<"c","h","a","r","t">>,
     description |-> <<"D","a","t","a"," ","p","i","p","e","l","i","n",
                       "e"," ","o","v","e","r","v","i","e","w"," ","(","a",
                       "l","l"," ","r","e","g","i","o","n","a","l"," ","s",
                       "e","r","v","i","c","e","s"," ","a","n","d"," ","t",
                       "e","a","m","s",")">>,
     caption |-> <<>>,
     elements |-> <<>>,
     confidence |-> Float(8000)],
    [diagram_type |-> <<"c","h","a","r","t">>,
     description |-> <<>>,
     caption |-> <<>>,
     elements |-> <<>>,
     confidence |-> Float(8000)],
    [diagram_type |-> <<"a","r","c","h","i","t","e","c","t","u","r","e">>,
     description |-> <<>>,
     caption |-> <<"S","y","s","t","e","m"," ","A","r","c","h","i","t","e","c","t","u","r","e"," ","O","v","e","r","v","i","e","w">>,
     elements |-> <<[content |-> Str(<<"A","P","I"," ","S","e","r","v","i","c","e">>)],
                    [content |-> Str(<<"U","s","e","r"," ","D","a","t","a","b","a","s","e">>)]>>,
     confidence |-> Float(9000)]
  >>

SampleSet == {DiagramSamples[k] : k \in 1..Len(DiagramSamples)}

InitConvert ==
  /\ input_diagrams \in SeqsUpTo(SampleSet, MaxDiagrams)
  /\ converted_diagrams = <<>>
  /\ cidx = 0
  /\ mermaid_result = PyNone
  /\ returned = <<>>
  /\ cpc = "for"

\* "converted_diagrams.append(converted_diagram)" and the next iteration
AppendAndContinue(converted_diagram) ==
  /\ converted_diagrams' = Append(converted_diagrams, converted_diagram)
  /\ cidx' = cidx + 1
  /\ mermaid_result' = PyNone
  /\ cpc' = "for"
  /\ UNCHANGED <<input_diagrams, returned>>

\* "for diagram in diagrams", the copy and the confidence threshold; a
\* confidence that is not a number makes "confidence < 0.8" raise
ConvertThreshold ==
  /\ cpc = "for"
  /\ cidx < Len(input_diagrams)
  /\ LET diagram == input_diagrams[cidx + 1]
         confidence == diagram.confidence
     IN IF ~IsFloat(confidence)
        THEN /\ cpc' = "except"
             /\ UNCHANGED <<input_diagrams, converted_diagrams, cidx,
                            mermaid_result, returned>>
        ELSE IF confidence.float < 8000
        THEN AppendAndContinue(diagram)
        ELSE /\ cpc' = "classify"
             /\ UNCHANGED <<input_diagrams, converted_diagrams, cidx,
                            mermaid_result, returned>>
  /\ UNCHANGED <<dispatchVars, tableVars, collectVars, classifyVars,
        diagramTypeVars, parseVars, contextVars, validateVars,
        basicVisionVars, synthesizeVars, resolveVars, integrateVars>>

\* "is_diagram, classification_confidence = classify_diagram_vs_screenshot"
ConvertClassify ==
  /\ cpc = "classify"
  /\ LET diagram == input_diagrams[cidx + 1]
         c == classify_diagram_vs_screenshot(diagram)
     IN IF ~c.is_diagram \/ c.confidence < 8000
        THEN AppendAndContinue(diagram)
        ELSE /\ cpc' = "generate"
             /\ UNCHANGED <<input_diagrams, converted_diagrams, cidx,
                            mermaid_result, returned>>
  /\ UNCHANGED <<dispatchVars, tableVars, collectVars, classifyVars,
        diagramTypeVars, parseVars, contextVars, validateVars,
        basicVisionVars, synthesizeVars, resolveVars, integrateVars>>

\* "mermaid_result = generate_mermaid_code(diagram, args)"
ConvertGenerate ==
  /\ cpc = "generate"
  /\ LET diagram == input_diagrams[cidx + 1]
         result == generate_mermaid_code(diagram)
     IN IF result.success
        THEN /\ mermaid_result' = result
             /\ cpc' = "validate"
             /\ UNCHANGED <<input_diagrams, converted_diagrams, cidx, returned>>
        ELSE AppendAndContinue(diagram)
  /\ UNCHANGED <<dispatchVars, tableVars, collectVars, classifyVars,
        diagramTypeVars, parseVars, contextVars, validateVars,
        basicVisionVars, synthesizeVars, resolveVars, integrateVars>>

\* Variant of ConvertValidate that attaches the code without validating it.
ConvertValidate_Unvalidated ==
  /\ cpc = "validate"
  /\ LET diagram == input_diagrams[cidx + 1]
         mermaid_code == mermaid_result.mermaid_code
     IN AppendAndContinue([mermaid_code |-> mermaid_code] @@ diagram)
  /\ UNCHANGED <<dispatchVars, tableVars, collectVars, classifyVars,
        diagramTypeVars, parseVars, contextVars, validateVars,
        basicVisionVars, synthesizeVars, resolveVars, integrateVars>>

\* "if validate_mermaid_syntax(mermaid_code):
\*      converted_diagram['mermaid_code'] = mermaid_code"
ConvertValidate ==
  /\ cpc = "validate"
  /\ LET diagram == input_diagrams[cidx + 1]
         mermaid_code == mermaid_result.mermaid_code
     IN IF validate_mermaid_syntax(mermaid_code)
        THEN AppendAndContinue([mermaid_code |-> mermaid_code] @@ diagram)
        ELSE AppendAndContinue(diagram)
  /\ UNCHANGED <<dispatchVars, tableVars, collectVars, classifyVars,
        diagramTypeVars, parseVars, contextVars, validateVars,
        basicVisionVars, synthesizeVars, resolveVars, integrateVars>>

\* "return converted_diagrams"
ConvertReturn ==
  /\ cpc = "for"
  /\ cidx = Len(input_diagrams)
  /\ returned' = converted_diagrams
  /\ cpc' = "returned"
  /\ UNCHANGED <<input_diagrams, converted_diagrams, cidx, mermaid_result>>
  /\ UNCHANGED <<dispatchVars, tableVars, collectVars, classifyVars,
        diagramTypeVars, parseVars, contextVars, validateVars,
        basicVisionVars, synthesizeVars, resolveVars, integrateVars>>

\* "except Exception as e: ... return diagrams"
ConvertExcept ==
  /\ cpc = "except"
  /\ returned' = input_diagrams
  /\ cpc' = "returned"
  /\ UNCHANGED <<input_diagrams, converted_diagrams, cidx, mermaid_result>>
  /\ UNCHANGED <<dispatchVars, tableVars, collectVars, classifyVars,
        diagramTypeVars, parseVars, contextVars, validateVars,
        basicVisionVars, synthesizeVars, resolveVars, integrateVars>>

NextConvert ==
  \/ ConvertThreshold
  \/ ConvertClassify
  \/ ConvertGenerate
  \/ ConvertValidate
  \/ ConvertReturn
  \/ ConvertExcept

InitC ==
  /\ IdleDispatch /\ IdleTable /\ InitConvert /\ IdleCollect
  /\ IdleClassify /\ IdleDiagramType /\ IdleParse /\ IdleContext
  /\ IdleValidate /\ IdleBasicVision /\ IdleSynthesize /\ IdleResolve
  /\ IdleIntegrate

SpecConvert == InitC /\ [][NextConvert]_vars

\* =================================================================
\* docling_processor.py: extract_diagram_descriptions, the figures it
\* collects from a document and the records it builds for them
\* =================================================================
MaxElements == 2
MaxPages == 2

ElementIds == 1..MaxElements

\* An element is a figure-typed element, a text element with an image
\* attribute, or a plain text element.
ElementKinds ==
  {[type |-> <<"P","i","c","t","u","r","e">>, image |-> FALSE],
   [type |-> <<"t","e","x","t">>, image |-> TRUE],
   [type |-> <<"t","e","x","t">>, image |-> FALSE]}

FigureTypeWords ==
  <<<<"f","i","g","u","r","e">>, <<"i","m","a","g","e">>, <<"p","i","c","t","u","r","e">>, <<"g","r","a","p","h","i","c">>, <<"c","h","a","r","t">>, <<"d","i","a","g","r","a","m">>>>

\* "any(diagram_type in element_type for diagram_type in [...])"
IsFigureType(type) == ContainsAny(Lower(type), FigureTypeWords)

\* the members of a set of integers in increasing order
RECURSIVE SortedSeq(_)
SortedSeq(S) ==
  IF S = {} THEN <<>> ELSE <<Min(S)>> \o SortedSeq(S \ {Min(S)})

\* A document: whether it has an elements attribute and which elements that
\* list holds, whether it has pages and on which page each element sits
\* (0: on none), the kind of each element, and the number of image
\* placeholders in its Markdown export. page_number[e] is the element's
\* page_number attribute, 0 when it has none.
InitCollect ==
  /\ \E has_elements \in BOOLEAN, has_pages \in BOOLEAN,
        listed \in SUBSET ElementIds,
        page_of \in [ElementIds -> 0..MaxPages],
        kind \in [ElementIds -> ElementKinds],
        placeholders \in 0..1 :
       /\ ~has_elements => listed = {}
       /\ ~has_pages => page_of = [e \in ElementIds |-> 0]
       /\ document = [has_elements |-> has_elements,
                      elements |-> SortedSeq(listed),
                      has_pages |-> has_pages,
                      page_of |-> page_of,
                      kind |-> kind,
                      placeholders |-> placeholders]
  /\ \E n \in {0, 9} : page_number = [e \in ElementIds |-> n]
  /\ figures = <<>>
  /\ fig_diagrams = <<>>
  /\ fig_raised = FALSE
  /\ kpc = "document.elements"

\* "if hasattr(document, 'elements'): for element in document.elements"
CollectFromElements ==
  /\ kpc = "document.elements"
  /\ LET found ==
           SelectSeq(document.elements,
                     LAMBDA e : \/ IsFigureType(document.kind[e].type)
                                \/ document.kind[e].image)
     IN figures' = figures \o [k \in 1..Len(found) |->
                                 [element |-> found[k], synthetic |-> FALSE]]
  /\ kpc' = "document.pages"
  /\ UNCHANGED <<document, page_number, fig_diagrams, fig_raised>>
  /\ UNCHANGED <<dispatchVars, tableVars, convertVars, classifyVars,
        diagramTypeVars, parseVars, contextVars, validateVars,
        basicVisionVars, synthesizeVars, resolveVars, integrateVars>>

\* the figure-typed elements of the pages, page by page
PageFigures ==
  Flatten([p \in 1..MaxPages |->
             SortedSeq({e \in ElementIds :
                          /\ document.page_of[e] = p
                          /\ IsFigureType(document.kind[e].type)})])

\* "if hasattr(document, 'pages'): for page_idx, page in enumerate(...)"
CollectFromPages ==
  /\ kpc = "document.pages"
  /\ IF document.has_pages
     THEN /\ figures' = figures \o [k \in 1..Len(PageFigures) |->
                                      [element |-> PageFigures[k],
                                       synthetic |-> FALSE]]
          /\ page_number' =
               [e \in ElementIds |->
                  IF /\ \E k \in 1..Len(PageFigures) : PageFigures[k] = e
                     /\ page_number[e] = 0
                  THEN document.page_of[e] ELSE page_number[e]]
     ELSE UNCHANGED <<figures, page_number>>
  /\ kpc' = "if not figures"
  /\ UNCHANGED <<document, fig_diagrams, fig_raised>>
  /\ UNCHANGED <<dispatchVars, tableVars, convertVars, classifyVars,
        diagramTypeVars, parseVars, contextVars, validateVars,
        basicVisionVars, synthesizeVars, resolveVars, integrateVars>>

\* "if not figures:" one synthetic figure per line with an image placeholder
CollectSynthetic ==
  /\ kpc = "if not figures"
  /\ IF figures = <<>>
     THEN figures' = [k \in 1..document.placeholders |->
                        [element |-> k, synthetic |-> TRUE]]
     ELSE UNCHANGED figures
  /\ kpc' = "for"
  /\ UNCHANGED <<document, page_number, fig_diagrams, fig_raised>>
  /\ UNCHANGED <<dispatchVars, tableVars, convertVars, classifyVars,
        diagramTypeVars, parseVars, contextVars, validateVars,
        basicVisionVars, synthesizeVars, resolveVars, integrateVars>>

\* "for i, figure in enumerate(figures)": one record, appended at the end of
\* the body
BuildRecord ==
  /\ kpc = "for"
  /\ Len(fig_diagrams) < Len(figures)
  /\ LET n == Len(fig_diagrams) + 1
         fig == figures[n]
     IN fig_diagrams' =
          Append(fig_diagrams,
                 [id |-> n,
                  figure |-> fig,
                  page_number |-> IF fig.synthetic THEN 1
                                  ELSE page_number[fig.element]])
  /\ UNCHANGED <<document, figures, page_number, fig_raised, kpc>>
  /\ UNCHANGED <<dispatchVars, tableVars, convertVars, classifyVars,
        diagramTypeVars, parseVars, contextVars, validateVars,
        basicVisionVars, synthesizeVars, resolveVars, integrateVars>>

\* the body raises for the current figure: "except Exception as e" around
\* the whole function, then "return diagrams"
BuildRaises ==
  /\ kpc = "for"
  /\ Len(fig_diagrams) < Len(figures)
  /\ fig_raised' = TRUE
  /\ kpc' = "returned"
  /\ UNCHANGED <<document, figures, page_number, fig_diagrams>>
  /\ UNCHANGED <<dispatchVars, tableVars, convertVars, classifyVars,
        diagramTypeVars, parseVars, contextVars, validateVars,
        basicVisionVars, synthesizeVars, resolveVars, integrateVars>>

\* "return diagrams"
ReturnDiagrams ==
  /\ kpc = "for"
  /\ Len(fig_diagrams) = Len(figures)
  /\ kpc' = "returned"
  /\ UNCHANGED <<document, figures, page_number, fig_diagrams, fig_raised>>
  /\ UNCHANGED <<dispatchVars, tableVars, convertVars, classifyVars,
        diagramTypeVars, parseVars, contextVars, validateVars,
        basicVisionVars, synthesizeVars, resolveVars, integrateVars>>

NextCollect ==
  \/ CollectFromElements
  \/ CollectFromPages
  \/ CollectSynthetic
  \/ BuildRecord
  \/ BuildRaises
  \/ ReturnDiagrams

InitK ==
  /\ IdleDispatch /\ IdleTable /\ IdleConvert /\ InitCollect
  /\ IdleClassify /\ IdleDiagramType /\ IdleParse /\ IdleContext
  /\ IdleValidate /\ IdleBasicVision /\ IdleSynthesize /\ IdleResolve
  /\ IdleIntegrate

SpecCollect == InitK /\ [][NextCollect]_vars

\* ------------------------------------ classify_diagram_vs_screenshot, called
\* on two records in turn
MaxKeywords == 3

DiagramWords == <<<<"a","p","i">>, <<"n","e","t","w","o","r","k">>, <<"d","a","t","a","b","a","s","e">>, <<"p","i","p","e","l","i","n","e">>, <<"s","e","q","u","e","n","c","e">>>>

ScreenshotWords == <<<<"m","e","n","u">>, <<"b","u","t","t","o","n">>, <<"d","i","a","l","o","g">>, <<"p","o","p","u","p">>, <<"w","i","n","d","o","w">>>>

ClassifierTypes == {<<"u","n","k","n","o","w","n">>, <<"c","h","a","r","t">>, <<"f","l","o","w","c","h","a","r","t">>, <<"s","c","r","e","e","n","s","h","o","t">>}

\* Records whose description holds the first d of DiagramWords and the first
\* s of ScreenshotWords, and records of the kind a vision model's JSON can
\* produce, with an element whose content is null
ClassifierInputs ==
  {[diagram_type |-> t,
    description |-> Join(SubSeq(DiagramWords, 1, d)
                         \o SubSeq(ScreenshotWords, 1, s), <<" ">>),
    caption |-> <<>>,
    elements |-> <<>>,
    confidence |-> Float(8000)] :
     t \in ClassifierTypes, d \in 0..MaxKeywords, s \in 0..MaxKeywords}
  \cup
  {[diagram_type |-> <<"f","l","o","w","c","h","a","r","t">>,
    description |-> <<>>,
    caption |-> <<>>,
    elements |-> <<[content |-> PyNone]>>,
    confidence |-> Float(8000)]}

\* the classifier's locals and result for one record; the scores are 0 when
\* it raises before computing them
ClassifierCall(diagram) ==
  LET contents == ElementContents(diagram.elements)
      raises == \E k \in 1..Len(contents) : ~IsStr(contents[k])
  IN [diagram |-> diagram,
      raised |-> raises,
      diagram_score |->
        IF raises THEN 0
        ELSE KeywordScore(diagram_keywords, classifier_text(diagram)),
      screenshot_score |->
        IF raises THEN 0
        ELSE KeywordScore(screenshot_keywords, classifier_text(diagram)),
      result |-> classify_diagram_vs_screenshot(diagram)]

InitClassify ==
  /\ cl_diagram \in ClassifierInputs
  /\ cl_calls = <<>>
  /\ clpc = "call"

\* classify_diagram_vs_screenshot(diagram) runs and returns
Classify ==
  /\ clpc = "call"
  /\ cl_calls' = Append(cl_calls, ClassifierCall(cl_diagram))
  /\ clpc' = "returned"
  /\ UNCHANGED cl_diagram
  /\ UNCHANGED <<dispatchVars, tableVars, convertVars, collectVars,
        diagramTypeVars, parseVars, contextVars, validateVars,
        basicVisionVars, synthesizeVars, resolveVars, integrateVars>>

\* the caller passes a second record
ClassifyAnother ==
  /\ clpc = "returned"
  /\ Len(cl_calls) = 1
  /\ cl_diagram' \in ClassifierInputs
  /\ clpc' = "call"
  /\ UNCHANGED cl_calls
  /\ UNCHANGED <<dispatchVars, tableVars, convertVars, collectVars,
        diagramTypeVars, parseVars, contextVars, validateVars,
        basicVisionVars, synthesizeVars, resolveVars, integrateVars>>

NextClassify ==
  \/ Classify
  \/ ClassifyAnother

InitL ==
  /\ IdleDispatch /\ IdleTable /\ IdleConvert /\ IdleCollect
  /\ InitClassify /\ IdleDiagramType /\ IdleParse /\ IdleContext
  /\ IdleValidate /\ IdleBasicVision /\ IdleSynthesize /\ IdleResolve
  /\ IdleIntegrate

SpecClassify == InitL /\ [][NextClassify]_vars

\* =================================================================
\* docling_processor.py: classify_diagram_type
\* =================================================================
\* "text_content" of classify_diagram_type: the lower-cased caption, then a
\* space and the lower-cased alt text when there is one
diagram_type_text(fig) ==
  (IF fig.caption # <<>> THEN Lower(fig.caption) ELSE <<>>)
  \o (IF fig.alt_text # <<>> THEN <<" ">> \o Lower(fig.alt_text) ELSE <<>>)

\* Variant of classify_diagram_type that tests the chart keywords first.
classify_diagram_type_ChartFirst(fig) ==
  LET text == diagram_type_text(fig) IN
  IF ContainsAny(text, <<<<"c","h","a","r","t">>, <<"g","r","a","p","h">>, <<"p","l","o","t">>>>)
  THEN <<"c","h","a","r","t">>
  ELSE IF ContainsAny(text, <<<<"f","l","o","w","c","h","a","r","t">>, <<"f","l","o","w"," ","c","h","a","r","t">>, <<"p","r","o","c","e","s","s">>, <<"w","o","r","k","f","l","o","w">>>>)
  THEN <<"f","l","o","w","c","h","a","r","t">>
  ELSE IF ContainsAny(text, <<<<"d","i","a","g","r","a","m">>, <<"s","c","h","e","m","a","t","i","c">>, <<"a","r","c","h","i","t","e","c","t","u","r","e">>>>)
  THEN <<"d","i","a","g","r","a","m">>
  ELSE IF ContainsAny(text, <<<<"t","a","b","l","e">>, <<"m","a","t","r","i","x">>>>)
  THEN <<"t","a","b","l","e">>
  ELSE IF ContainsAny(text, <<<<"m","a","p">>, <<"l","a","y","o","u","t">>, <<"p","l","a","n">>>>)
  THEN <<"m","a","p">>
  ELSE <<"u","n","k","n","o","w","n">>

classify_diagram_type(fig) ==
  LET text == diagram_type_text(fig) IN
  IF ContainsAny(text, <<<<"f","l","o","w","c","h","a","r","t">>, <<"f","l","o","w"," ","c","h","a","r","t">>, <<"p","r","o","c","e","s","s">>, <<"w","o","r","k","f","l","o","w">>>>)
  THEN <<"f","l","o","w","c","h","a","r","t">>
  ELSE IF ContainsAny(text, <<<<"c","h","a","r","t">>, <<"g","r","a","p","h">>, <<"p","l","o","t">>>>)
  THEN <<"c","h","a","r","t">>
  ELSE IF ContainsAny(text, <<<<"d","i","a","g","r","a","m">>, <<"s","c","h","e","m","a","t","i","c">>, <<"a","r","c","h","i","t","e","c","t","u","r","e">>>>)
  THEN <<"d","i","a","g","r","a","m">>
  ELSE IF ContainsAny(text, <<<<"t","a","b","l","e">>, <<"m","a","t","r","i","x">>>>)
  THEN <<"t","a","b","l","e">>
  ELSE IF ContainsAny(text, <<<<"m","a","p">>, <<"l","a","y","o","u","t">>, <<"p","l","a","n">>>>)
  THEN <<"m","a","p">>
  ELSE <<"u","n","k","n","o","w","n">>

\* words for captions, one that matches each keyword set, and alt texts
CaptionWords ==
  <<<<"F","l","o","w"," ","c","h","a","r","t">>, <<"b","a","r"," ","g","r","a","p","h">>, <<"S","c","h","e","m","a","t","i","c">>, <<"m","a","t","r","i","x">>, <<"f","l","o","o","r"," ","l","a","y","o","u","t">>>>

AltTexts == {<<>>, <<"W","o","r","k","f","l","o","w">>, <<"e","x","p","l","a","n","a","t","i","o","n">>, <<"p","h","o","t","o">>}

\* the words of CaptionWords at the indexes in S, in list order or reversed
CaptionOf(S, reversed) ==
  LET idx == SortedSeq(S)
      n == Len(idx)
  IN Join([k \in 1..n |->
             CaptionWords[IF reversed THEN idx[n + 1 - k] ELSE idx[k]]],
          <<" ">>)

InitDiagramType ==
  /\ \E S \in SUBSET (1..Len(CaptionWords)), reversed \in BOOLEAN,
        alt \in AltTexts :
       ty_figure = [caption |-> CaptionOf(S, reversed), alt_text |-> alt]
  /\ ty_result = [none |-> TRUE]
  /\ typc = "call"

\* "diagram_type = classify_diagram_type(figure)"
ClassifyDiagramType ==
  /\ typc = "call"
  /\ ty_result' = Str(classify_diagram_type(ty_figure))
  /\ typc' = "returned"
  /\ UNCHANGED ty_figure
  /\ UNCHANGED <<dispatchVars, tableVars, convertVars, collectVars,
        classifyVars, parseVars, contextVars, validateVars,
        basicVisionVars, synthesizeVars, resolveVars, integrateVars>>

NextDiagramType == ClassifyDiagramType

InitY ==
  /\ IdleDispatch /\ IdleTable /\ IdleConvert /\ IdleCollect
  /\ IdleClassify /\ InitDiagramType /\ IdleParse /\ IdleContext
  /\ IdleValidate /\ IdleBasicVision /\ IdleSynthesize /\ IdleResolve
  /\ IdleIntegrate

SpecDiagramType == InitY /\ [][NextDiagramType]_vars

\* =================================================================
\* docling_processor.py: parse_vlm_response
\* =================================================================
MaxBlockLines == 3

\* the first position from j on that holds no whitespace
RECURSIVE AfterSpaces(_, _)
AfterSpaces(s, j) ==
  IF j <= Len(s) /\ s[j] \in Whitespace THEN AfterSpaces(s, j + 1) ELSE j

\* s[:n]
Prefix(s, n) == SubSeq(s, 1, IF n <= Len(s) THEN n ELSE Len(s))

\* json.loads on the response contents that are JSON documents; every other
\* content raises JSONDecodeError (None here)
JsonDocuments ==
  <<[text |-> <<"{","\"","d","e","s","c","r","i","p","t","i","o","n","\"",":"," ","\"","N","o"," ","c","l","e","a","r"," ","d","i","a","g","r","a","m"," ","d","e","t","e","c","t","e","d","\"","}">>,
     value |-> [description |-> <<"N","o"," ","c","l","e","a","r"," ","d","i","a","g","r","a","m"," ","d","e","t","e","c","t","e","d">>]],
    [text |-> <<"{","\"","d","i","a","g","r","a","m","_","t","y","p","e","\"",":"," ","\"","n","o","n","e","\"",","," ","\"","c","o","n","f","i","d","e","n","c","e","\"",":"," ","0",".","9","}">>,
     value |-> [diagram_type |-> <<"n","o","n","e">>, confidence |-> 9000]],
    [text |-> <<"{","\"","m","e","r","m","a","i","d","_","c","o","d","e","\"",":"," ","\"","g","r","a","p","h"," ","T","D",";"," ","A","-","-",">","B","\"","}">>,
     value |-> [mermaid_code |-> <<"g","r","a","p","h"," ","T","D",";"," ","A","-","-",">","B">>]]>>

json_loads(content) ==
  IF \E k \in 1..Len(JsonDocuments) : JsonDocuments[k].text = content
  THEN (CHOOSE d \in {JsonDocuments[k] : k \in 1..Len(JsonDocuments)} :
          d.text = content).value
  ELSE PyNone

\* parsed_json.get(key, default)
JsonGet(parsed_json, key, default) ==
  IF key \in DOMAIN parsed_json THEN parsed_json[key] ELSE default

\* re.search of an opening fence, (.*?) and a closing fence with re.DOTALL:
\* the leftmost opening that has a closing after it, and the text up to the
\* first such closing. opens holds the start and the end of every opening.
FenceSearch(content, opens, closing) ==
  LET closings == Occurrences(content, closing)
      matching == {o \in opens : \E c \in closings : c >= o.end}
  IN IF matching = {} THEN PyNone
     ELSE LET o == CHOOSE x \in matching :
                     \A y \in matching : x.start <= y.start
              c == Min({k \in closings : k >= o.end})
          IN Str(SubSeq(content, o.end, c - 1))

\* the first of mermaid_patterns ("Standard format"), with re.IGNORECASE:
\* three backquotes, mermaid, a newline, (.*?), a newline, three backquotes
StandardFence(content) ==
  FenceSearch(content,
              {[start |-> k, end |-> k + 11] :
                 k \in Occurrences(Lower(content), <<Backquote,Backquote,Backquote,"m","e","r","m","a","i","d","\n">>)},
              <<"\n",Backquote,Backquote,Backquote>>)

\* the second pattern ("With whitespace"): \s* on both sides of the group;
\* the whitespace is left in the group here, the caller strips the group
WhitespaceFence(content) ==
  FenceSearch(content,
              {[start |-> k, end |-> k + 10] :
                 k \in Occurrences(Lower(content), <<Backquote,Backquote,Backquote,"m","e","r","m","a","i","d">>)},
              <<Backquote,Backquote,Backquote>>)

\* the third pattern ("With spaces around mermaid"): \s* also before mermaid
SpacedFence(content) ==
  LET lower == Lower(content)
      tag(k) == AfterSpaces(lower, k + 3)
  IN FenceSearch(content,
                 {[start |-> k, end |-> tag(k) + 7] :
                    k \in {j \in Occurrences(lower, <<Backquote,Backquote,Backquote>>) :
                             /\ tag(j) + 6 <= Len(lower)
                             /\ SubSeq(lower, tag(j), tag(j) + 6) = <<"m","e","r","m","a","i","d">>}},
                 <<Backquote,Backquote,Backquote>>)

\* "for pattern in mermaid_patterns": the match of the first pattern that
\* matches, None when none does
MermaidMatch(content) ==
  IF StandardFence(content) # PyNone THEN StandardFence(content)
  ELSE IF WhitespaceFence(content) # PyNone THEN WhitespaceFence(content)
  ELSE SpacedFence(content)

\* re.match of the declaration pattern with re.IGNORECASE: graph or
\* flowchart at the start of the line, whitespace, then a direction
IsGraphDeclaration(line) ==
  LET lower == Lower(line) IN
  \E kw \in {<<"g","r","a","p","h">>, <<"f","l","o","w","c","h","a","r","t">>} :
    /\ StartsWith(lower, kw)
    /\ LET j == AfterSpaces(lower, Len(kw) + 1) IN
       /\ j > Len(kw) + 1
       /\ j + 1 <= Len(lower)
       /\ SubSeq(lower, j, j + 1) \in {<<"t","d">>, <<"l","r">>, <<"t","b">>, <<"r","l">>, <<"b","t">>, <<"u","d">>}

\* the two loops over the lines: strip each line, skip the empty ones and
\* every graph declaration after the first
RECURSIVE KeepFirstDeclaration(_, _)
KeepFirstDeclaration(lines, found) ==
  IF lines = <<>> THEN <<>>
  ELSE LET line == Strip(Head(lines)) IN
       IF line = <<>> THEN KeepFirstDeclaration(Tail(lines), found)
       ELSE IF IsGraphDeclaration(line)
       THEN (IF found THEN <<>> ELSE <<line>>)
            \o KeepFirstDeclaration(Tail(lines), TRUE)
       ELSE <<line>> \o KeepFirstDeclaration(Tail(lines), found)

\* the body of "if mermaid_match:", the Mermaid code it leaves
ExtractMermaid(group) ==
  LET raw_mermaid == Strip(group)
      cleaned_lines == KeepFirstDeclaration(Split(raw_mermaid, <<"\n">>), FALSE)
  IN IF Len(cleaned_lines) > 1
     THEN LET joined == Join(cleaned_lines, <<"\n">>)
              final_lines == KeepFirstDeclaration(Split(joined, <<"\n">>), FALSE)
          IN IF Len(final_lines) > 1 THEN Join(final_lines, <<"\n">>)
             ELSE <<>>
     ELSE <<>>

parse_vlm_response(content) ==
  LET stripped == Strip(content)
      parsed_json ==
        IF stripped # <<>> /\ Head(stripped) = "{"
           /\ stripped[Len(stripped)] = "}"
        THEN json_loads(content) ELSE PyNone
      mermaid_match == MermaidMatch(content)
      mermaid_code ==
        IF mermaid_match = PyNone THEN <<>>
        ELSE ExtractMermaid(mermaid_match.str)
  IN IF parsed_json # PyNone
     THEN [description |->
             JsonGet(parsed_json, "description", Prefix(content, 200)),
           type |-> JsonGet(parsed_json, "diagram_type", <<"d","i","a","g","r","a","m">>),
           confidence |-> JsonGet(parsed_json, "confidence", 8000),
           mermaid_code |-> JsonGet(parsed_json, "mermaid_code", <<>>)]
     ELSE IF /\ mermaid_code = <<>>
             /\ \/ Contains(Lower(content), <<"n","o"," ","c","l","e","a","r"," ","d","i","a","g","r","a","m"," ","d","e","t","e","c","t","e","d">>)
                \/ Contains(Lower(content), <<"n","o"," ","d","i","a","g","r","a","m">>)
     THEN [description |-> <<"N","o"," ","c","l","e","a","r"," ","d","i","a","g","r","a","m"," ","d","e","t","e","c","t","e","d"," ","i","n"," ","i","m","a","g","e">>,
           type |-> <<"n","o","n","e">>,
           confidence |-> 9000,
           mermaid_code |-> <<>>]
     ELSE [description |-> <<"D","i","a","g","r","a","m"," ","a","n","a","l","y","s","i","s"," ","c","o","m","p","l","e","t","e","d">>,
           type |-> IF mermaid_code = <<>> THEN <<"d","i","a","g","r","a","m">>
                    ELSE IF Contains(Lower(mermaid_code), <<"f","l","o","w","c","h","a","r","t">>)
                    THEN <<"f","l","o","w","c","h","a","r","t">>
                    ELSE IF Contains(Lower(mermaid_code), <<"g","r","a","p","h">>)
                    THEN <<"g","r","a","p","h">>
                    ELSE <<"d","i","a","g","r","a","m">>,
           confidence |-> IF mermaid_code # <<>> THEN 8000 ELSE 3000,
           mermaid_code |-> mermaid_code]

\* ---------------------------------------------------- response contents
\* what a response says before its fenced block
Leads == {<<>>, <<"N","o"," ","c","l","e","a","r"," ","d","i","a","g","r","a","m"," ","d","e","t","e","c","t","e","d",".","\n">>, <<"R","e","s","u","l","t",":","\n">>}

\* the lines a response puts between its fences
BlockLines == {<<"g","r","a","p","h"," ","T","D">>, <<"F","l","o","w","c","h","a","r","t"," "," ","l","r">>, <<"A","-","-",">","B">>, <<" ","B","-","-",">","C"," ">>, <<>>}

\* the fences around a block, as an opening and a closing
FenceStyles ==
  {[opening |-> <<Backquote,Backquote,Backquote,"m","e","r","m","a","i","d","\n">>, closing |-> <<"\n",Backquote,Backquote,Backquote>>],
   [opening |-> <<Backquote,Backquote,Backquote,"M","e","r","m","a","i","d"," ">>, closing |-> <<" ",Backquote,Backquote,Backquote>>],
   [opening |-> <<Backquote,Backquote,Backquote," ","m","e","r","m","a","i","d","\n">>, closing |-> <<"\n",Backquote,Backquote,Backquote>>]}

NoBlock == [none |-> TRUE]

InitParse ==
  /\ \/ \E lead \in Leads, fence \in FenceStyles,
           lines \in SeqsUpTo(BlockLines, MaxBlockLines) :
          /\ vlm_block = [lines |-> lines]
          /\ vlm_content = lead \o fence.opening \o Join(lines, <<"\n">>)
                             \o fence.closing
     \/ /\ vlm_block = NoBlock
        /\ \/ vlm_content \in Leads
           \/ vlm_content = <<"{","n","o"," ","c","l","e","a","r"," ","d","i","a","g","r","a","m"," ","d","e","t","e","c","t","e","d","}">>
           \/ \E k \in 1..Len(JsonDocuments) :
                vlm_content = JsonDocuments[k].text
  /\ vlm_result = PyNone
  /\ vpc = "call"

\* "return parse_vlm_response(content, figure)"
ParseVlmResponseCall ==
  /\ vpc = "call"
  /\ vlm_result' = parse_vlm_response(vlm_content)
  /\ vpc' = "returned"
  /\ UNCHANGED <<vlm_content, vlm_block>>
  /\ UNCHANGED <<dispatchVars, tableVars, convertVars, collectVars,
        classifyVars, diagramTypeVars, contextVars, validateVars,
        basicVisionVars, synthesizeVars, resolveVars, integrateVars>>

NextParse == ParseVlmResponseCall

InitP ==
  /\ IdleDispatch /\ IdleTable /\ IdleConvert /\ IdleCollect
  /\ IdleClassify /\ IdleDiagramType /\ InitParse /\ IdleContext
  /\ IdleValidate /\ IdleBasicVision /\ IdleSynthesize /\ IdleResolve
  /\ IdleIntegrate

SpecParse == InitP /\ [][NextParse]_vars

\* =================================================================
\* docling_processor.py: analyze_with_context_data and
\* generate_structured_data_and_prompt
\* =================================================================
MaxContextWords == 3

Largest(S) == CHOOSE x \in S : \A y \in S : x >= y

AsciiLetters ==
  DOMAIN UpperToLower \cup {UpperToLower[c] : c \in DOMAIN UpperToLower}

\* \b in front of s[k]: exactly one of s[k - 1] and s[k] is a word character
WordBoundary(s, k) ==
  LET word(j) == j >= 1 /\ j <= Len(s)
                 /\ s[j] \in AsciiLetters \cup Digits \cup {"_"}
  IN word(k - 1) # word(k)

\* the ends e of a match p..e of \d+\.?\d* that a \b follows
BoundedNumberEnds(s, p) ==
  LET e1 == DigitRunEnd(s, p)
      dot == e1 < Len(s) /\ s[e1 + 1] = "."
      e3 == IF dot THEN DigitRunEnd(s, e1 + 2) ELSE e1
  IN {e \in p..e3 : WordBoundary(s, e + 1)}

\* re.findall(r'\b\d+\.?\d*\b', s[p:]): backtracking gives up the longest
\* match first
RECURSIVE FindBoundedNumbers(_, _)
FindBoundedNumbers(s, p) ==
  IF p > Len(s) THEN <<>>
  ELSE IF s[p] \in Digits /\ WordBoundary(s, p)
          /\ BoundedNumberEnds(s, p) # {}
  THEN LET e == Largest(BoundedNumberEnds(s, p))
       IN <<SubSeq(s, p, e)>> \o FindBoundedNumbers(s, e + 1)
  ELSE FindBoundedNumbers(s, p + 1)

\* the last index of the run of letters and whitespace that starts at p
RECURSIVE LetterRunEnd(_, _)
LetterRunEnd(s, p) ==
  IF p <= Len(s) /\ s[p] \in AsciiLetters \cup Whitespace
  THEN LetterRunEnd(s, p + 1) ELSE p - 1

\* the ends e of a match p..e of [a-zA-Z][a-zA-Z\s]+ that a \b follows
WordRunEnds(s, p) ==
  {e \in (p + 1)..LetterRunEnd(s, p + 1) : WordBoundary(s, e + 1)}

\* re.findall(r'\b[a-zA-Z][a-zA-Z\s]+\b', s[p:])
RECURSIVE FindWordRuns(_, _)
FindWordRuns(s, p) ==
  IF p > Len(s) THEN <<>>
  ELSE IF s[p] \in AsciiLetters /\ WordBoundary(s, p) /\ WordRunEnds(s, p) # {}
  THEN LET e == Largest(WordRunEnds(s, p))
       IN <<SubSeq(s, p, e)>> \o FindWordRuns(s, e + 1)
  ELSE FindWordRuns(s, p + 1)

\* "float(n) > 0" for a match n of the number pattern
IsPositiveNumber(n) == \E k \in 1..Len(n) : n[k] \in Digits \ {"0"}

\* the extracted_data and suggested_format of
\* generate_structured_data_and_prompt; floats are held as their str()
generate_structured_data_and_prompt(diagram_type, text_elements) ==
  LET numbers ==
        Flatten([k \in 1..Len(text_elements) |->
                   LET found == FindNumbers(text_elements[k], 1)
                   IN [j \in 1..Len(found) |-> FloatText(found[j])]])
      non_numeric ==
        [k \in 1..Len(text_elements) |->
           Strip(RemoveNumbers(text_elements[k], 1))]
      labels == SelectSeq(non_numeric, LAMBDA l : Len(l) > 1)
      \* extracted_data is still {} while the flowchart dict is built
      earlier_decision_points == <<>>
  IN IF diagram_type = <<"c","h","a","r","t">>
     THEN [extracted_data |->
             [type |-> <<"c","h","a","r","t">>,
              data_points |-> Prefix(numbers, 10),
              labels |-> Prefix(labels, 10),
              chart_elements |-> text_elements],
           suggested_format |-> <<"c","h","a","r","t",".","j","s">>]
     ELSE IF diagram_type = <<"a","r","c","h","i","t","e","c","t","u","r","e">>
     THEN [extracted_data |->
             [type |-> <<"a","r","c","h","i","t","e","c","t","u","r","e">>,
              components |-> SelectSeq(labels, LAMBDA l : Len(l) > 2),
              connections |-> <<>>,
              services |->
                SelectSeq(text_elements,
                          LAMBDA t : ContainsAny(Lower(t),
                            <<<<"s","e","r","v","i","c","e">>, <<"a","p","i">>, <<"a","p","p">>, <<"d","a","t","a","b","a","s","e">>>>))],
           suggested_format |-> <<"m","e","r","m","a","i","d">>]
     ELSE IF diagram_type = <<"f","l","o","w","c","h","a","r","t">>
     THEN [extracted_data |->
             [type |-> <<"f","l","o","w","c","h","a","r","t">>,
              steps |-> text_elements,
              decision_points |->
                SelectSeq(text_elements,
                          LAMBDA t : \/ Contains(t, <<"?">>)
                                     \/ ContainsAny(Lower(t),
                                          <<<<"i","f">>, <<"t","h","e","n">>, <<"e","l","s","e">>, <<"d","e","c","i","s","i","o","n">>>>)),
              processes |->
                SelectSeq(text_elements,
                          LAMBDA t : \A k \in 1..Len(earlier_decision_points) :
                                       earlier_decision_points[k] # t)],
           suggested_format |-> <<"m","e","r","m","a","i","d">>]
     ELSE [extracted_data |->
             [type |-> <<"g","e","n","e","r","i","c">>,
              text_elements |-> text_elements,
              numerical_data |-> numbers,
              labels |-> labels],
           suggested_format |-> <<"m","e","r","m","a","i","d">>]

ContextStopWords ==
  {<<"t","h","e">>, <<"a","n","d">>, <<"f","o","r">>, <<"w","i","t","h">>, <<"e","x","a","m","p","l","e">>, <<"d","a","t","a">>, <<"t","a","b","l","e">>}

analyze_with_context_data(surrounding_text) ==
  IF ~IsStr(surrounding_text)
  THEN \* re.findall raises, "except Exception"
       [type |-> <<"c","h","a","r","t">>, elements |-> <<>>, confidence |-> 3000,
        extracted_data |-> [none |-> TRUE], suggested_format |-> <<"m","e","r","m","a","i","d">>]
  ELSE
    LET context_text == surrounding_text.str
        number_matches == FindBoundedNumbers(context_text, 1)
        numbers == [k \in 1..Len(SelectSeq(number_matches, IsPositiveNumber)) |->
                      FloatText(SelectSeq(number_matches, IsPositiveNumber)[k])]
        words == FindWordRuns(context_text, 1)
        stripped == [k \in 1..Len(words) |-> Strip(words[k])]
        labels == SelectSeq(stripped,
                            LAMBDA w : Len(w) > 2 /\ Lower(w) \notin ContextStopWords)
        text_elements == labels \o Prefix(numbers, 5)
        structured_data ==
          generate_structured_data_and_prompt(<<"c","h","a","r","t">>, text_elements)
    IN [type |-> <<"c","h","a","r","t">>,
        elements |-> [k \in 1..Len(Prefix(text_elements, 10)) |->
                        [type |-> <<"t","e","x","t">>, content |-> text_elements[k]]],
        confidence |-> 8000,
        extracted_data |-> structured_data.extracted_data,
        suggested_format |-> structured_data.suggested_format]

\* the words a surrounding text is made of
ContextWords ==
  {<<"R","e","v","e","n","u","e">>, <<"g","r","e","w">>, <<"t","o">>, <<"1","5","0">>, <<"i","n">>, <<"Q","3">>, <<"0",".","0">>, <<"t","h","e">>}

ScenarioEText == <<"R","e","v","e","n","u","e"," ","g","r","e","w"," ","t","o"," ","1","5","0"," ","m","i","l","l","i","o","n"," ","i","n"," ","Q","3">>

InitContext ==
  /\ \/ \E ws \in SeqsUpTo(ContextWords, MaxContextWords) :
          ctx_text = Str(Join(ws, <<" ">>))
     \/ ctx_text = Str(ScenarioEText)
     \/ ctx_text = PyNone
  /\ ctx_result = PyNone
  /\ xpc = "call"

\* "vision_description = analyze_with_context_data(figure, args)"
AnalyzeWithContextData ==
  /\ xpc = "call"
  /\ ctx_result' = analyze_with_context_data(ctx_text)
  /\ xpc' = "returned"
  /\ UNCHANGED ctx_text
  /\ UNCHANGED <<dispatchVars, tableVars, convertVars, collectVars,
        classifyVars, diagramTypeVars, parseVars, validateVars,
        basicVisionVars, synthesizeVars, resolveVars, integrateVars>>

NextContext == AnalyzeWithContextData

InitX ==
  /\ IdleDispatch /\ IdleTable /\ IdleConvert /\ IdleCollect
  /\ IdleClassify /\ IdleDiagramType /\ IdleParse /\ InitContext
  /\ IdleValidate /\ IdleBasicVision /\ IdleSynthesize /\ IdleResolve
  /\ IdleIntegrate

SpecContext == InitX /\ [][NextContext]_vars

\* =================================================================
\* docling_processor.py: validate_mermaid_syntax on arbitrary strings
\* =================================================================
MaxCodeLines == 3

\* the lines a Mermaid source is made of
CodeLines ==
  {<<>>, <<"g","r","a","p","h"," ","T","D">>, <<" "," ","F","l","o","w","c","h","a","r","t"," ","L","R">>, <<"e","r","d","i","a","g","r","a","m">>, <<"A","[","x","]">>, <<"A","[","x">>,
   <<" "," ","c","l","a","s","s","D","e","f"," ","n","(","y",")">>, <<"c","l","a","s","s"," ","b","{","}">>, <<"A"," ","-","-",">"," ","B">>, <<" ","A"," ","-","-","-"," ","B"," ">>}

InitValidate ==
  /\ \E ls \in SeqsUpTo(CodeLines, MaxCodeLines) :
       val_code = Join(ls, <<"\n">>)
  /\ val_result = PyNone
  /\ vapc = "call"

\* "validate_mermaid_syntax(mermaid_code)"
ValidateMermaidSyntax ==
  /\ vapc = "call"
  /\ val_result' = [bool |-> validate_mermaid_syntax(val_code)]
  /\ vapc' = "returned"
  /\ UNCHANGED val_code
  /\ UNCHANGED <<dispatchVars, tableVars, convertVars, collectVars,
        classifyVars, diagramTypeVars, parseVars, contextVars,
        basicVisionVars, synthesizeVars, resolveVars, integrateVars>>

NextValidate == ValidateMermaidSyntax

InitV ==
  /\ IdleDispatch /\ IdleTable /\ IdleConvert /\ IdleCollect
  /\ IdleClassify /\ IdleDiagramType /\ IdleParse /\ IdleContext
  /\ InitValidate /\ IdleBasicVision /\ IdleSynthesize /\ IdleResolve
  /\ IdleIntegrate

SpecValidate == InitV /\ [][NextValidate]_vars

\* =================================================================
\* docling_processor.py: analyze_with_basic_vision
\* =================================================================
MaxOcrResults == 3

\* the text of one OCR result
OcrTexts == {<<>>, <<" ">>, <<"A","P","I">>, <<"s","t","e","p"," ","1">>, <<"d","a","t","a">>, <<"x","?">>}

\* what the OCR block does: the import fails, extract_text raises, or it
\* returns a list of results
OcrRuns ==
  {[kind |-> "import_error"], [kind |-> "exception"]}
  \cup {[kind |-> "results", texts |-> ts] :
          ts \in SeqsUpTo(OcrTexts, MaxOcrResults)}

analyze_with_basic_vision(ocr) ==
  LET initial == [type |-> <<"d","i","a","g","r","a","m">>, elements |-> <<>>, confidence |-> 5000,
                  text_representation |-> <<>>,
                  extracted_data |-> [none |-> TRUE],
                  suggested_format |-> <<"m","e","r","m","a","i","d">>]
  IN IF ocr.kind # "results" \/ ocr.texts = <<>>
     THEN \* "except ImportError", "except Exception", or "if ocr_results:"
          \* fails
          initial
     ELSE
       LET stripped == [k \in 1..Len(ocr.texts) |-> Strip(ocr.texts[k])]
           description_parts == SelectSeq(stripped, LAMBDA t : t # <<>>)
           text_content == Lower(Join(description_parts, <<" ">>))
           type ==
             IF ContainsAny(text_content,
                            <<<<"d","a","t","a","b","a","s","e">>, <<"s","e","r","v","i","c","e">>, <<"a","p","i">>, <<"a","p","p">>>>)
             THEN <<"a","r","c","h","i","t","e","c","t","u","r","e">>
             ELSE IF ContainsAny(text_content, <<<<"p","r","o","c","e","s","s">>, <<"f","l","o","w">>, <<"s","t","e","p">>>>)
             THEN <<"f","l","o","w","c","h","a","r","t">>
             ELSE IF ContainsAny(text_content, <<<<"c","h","a","r","t">>, <<"g","r","a","p","h">>, <<"d","a","t","a">>>>)
             THEN <<"c","h","a","r","t">>
             ELSE <<"d","i","a","g","r","a","m">>
           structured_data ==
             generate_structured_data_and_prompt(type, description_parts)
       IN IF description_parts = <<>>
          THEN [initial EXCEPT !.confidence = 7000]
          ELSE [type |-> type,
                elements |-> [k \in 1..Len(description_parts) |->
                                [type |-> <<"t","e","x","t">>,
                                 content |-> description_parts[k]]],
                confidence |-> 7000,
                text_representation |-> Join(description_parts, <<"\n">>),
                extracted_data |-> structured_data.extracted_data,
                suggested_format |-> structured_data.suggested_format]

InitBasicVision ==
  /\ bv_ocr \in OcrRuns
  /\ bv_result = PyNone
  /\ bpc = "call"

\* "return analyze_with_basic_vision(image_data, figure)"
AnalyzeBasicVisionCall ==
  /\ bpc = "call"
  /\ bv_result' = analyze_with_basic_vision(bv_ocr)
  /\ bpc' = "returned"
  /\ UNCHANGED bv_ocr
  /\ UNCHANGED <<dispatchVars, tableVars, convertVars, collectVars,
        classifyVars, diagramTypeVars, parseVars, contextVars,
        validateVars, synthesizeVars, resolveVars, integrateVars>>

NextBasicVision == AnalyzeBasicVisionCall

InitB ==
  /\ IdleDispatch /\ IdleTable /\ IdleConvert /\ IdleCollect
  /\ IdleClassify /\ IdleDiagramType /\ IdleParse /\ IdleContext
  /\ IdleValidate /\ InitBasicVision /\ IdleSynthesize /\ IdleResolve
  /\ IdleIntegrate

SpecBasicVision == InitB /\ [][NextBasicVision]_vars

\* =================================================================
\* docling_processor.py: generate_mermaid_code on lists of text elements
\* =================================================================
MaxSynElements == 3
MaxNodes == 28

SynTypes == {<<"f","l","o","w","c","h","a","r","t">>, <<"a","r","c","h","i","t","e","c","t","u","r","e">>, <<"c","h","a","r","t">>, <<"u","n","k","n","o","w","n">>}

\* the content of one text element
SynTexts == {<<"S","t","a","r","t">>, <<"R","e","a","d","y","?">>, <<"i","f"," ","o","k">>, <<"L","o","a","d"," ","(","x">>, <<"C","o","s","t"," ","7">>, <<"U","s","e","r"," ","D","B">>}

\* lists of text elements: every short list, and long lists of one text
SynElementLists ==
  SeqsUpTo(SynTexts, MaxSynElements)
  \cup {[k \in 1..n |-> t] :
          n \in (MaxSynElements + 1)..MaxNodes,
          t \in {<<"S","t","e","p">>, <<"R","e","a","d","y","?">>, <<"C","o","s","t"," ","7">>}}

InitSynthesize ==
  /\ \E t \in SynTypes, texts \in SynElementLists :
       syn_diagram =
         [diagram_type |-> t,
          description |-> <<>>,
          elements |-> [k \in 1..Len(texts) |-> [content |-> Str(texts[k])]]]
  /\ syn_result = PyNone
  /\ spc = "call"

\* "mermaid_result = generate_mermaid_code(diagram, args)"
GenerateMermaidCode ==
  /\ spc = "call"
  /\ syn_result' = generate_mermaid_code(syn_diagram)
  /\ spc' = "returned"
  /\ UNCHANGED syn_diagram
  /\ UNCHANGED <<dispatchVars, tableVars, convertVars, collectVars,
        classifyVars, diagramTypeVars, parseVars, contextVars,
        validateVars, basicVisionVars, resolveVars, integrateVars>>

NextSynthesize == GenerateMermaidCode

InitS ==
  /\ IdleDispatch /\ IdleTable /\ IdleConvert /\ IdleCollect
  /\ IdleClassify /\ IdleDiagramType /\ IdleParse /\ IdleContext
  /\ IdleValidate /\ IdleBasicVision /\ InitSynthesize /\ IdleResolve
  /\ IdleIntegrate

SpecSynthesize == InitS /\ [][NextSynthesize]_vars

\* =================================================================
\* docling_processor.py: resolve_feature_dependencies on every
\* combination of the command line's flags
\* =================================================================
\* every combination of the flags, over the choices of --processing-mode
\* and of --table-former-mode
ResolveArgsDomain ==
  [enable_remote_services : BOOLEAN, vision_mode : VisionModes,
   diagram_description : BOOLEAN, chart_data_extraction : BOOLEAN,
   processing_mode : {"basic", "advanced", "ocr", "tables", "images"},
   table_former_mode : {"fast", "accurate"}]

InitResolve ==
  /\ rf_args \in ResolveArgsDomain
  /\ rf_result = PyNone
  /\ rfpc = "call"

\* "args = resolve_feature_dependencies(args)"
ResolveFeatureDependenciesCall ==
  /\ rfpc = "call"
  /\ rf_result' = ResolveFeatureDependencies(rf_args)
  /\ rfpc' = "returned"
  /\ UNCHANGED rf_args
  /\ UNCHANGED <<dispatchVars, tableVars, convertVars, collectVars,
        classifyVars, diagramTypeVars, parseVars, contextVars,
        validateVars, basicVisionVars, synthesizeVars, integrateVars>>

NextResolve == ResolveFeatureDependenciesCall

InitR ==
  /\ IdleDispatch /\ IdleTable /\ IdleConvert /\ IdleCollect
  /\ IdleClassify /\ IdleDiagramType /\ IdleParse /\ IdleContext
  /\ IdleValidate /\ IdleBasicVision /\ IdleSynthesize /\ InitResolve
  /\ IdleIntegrate

SpecResolve == InitR /\ [][NextResolve]_vars

\* =================================================================
\* docling_processor.py: the image and Mermaid stages of
\* process_document (extract_images, replace_image_placeholders_with_links,
\* process_images_with_vlm_pipeline, integrate_mermaid_into_content), with
\* --preserve-images, --convert-diagrams-to-mermaid and markdown output,
\* the configuration in which integrate_mermaid_into_content is called
\* =================================================================
MaxPictures == 3

\* str(n) for a positive n
RECURSIVE DecimalText(_)
DecimalText(n) ==
  IF n < 10 THEN <<ToString(n)>>
  ELSE DecimalText(n \div 10) \o DecimalText(n % 10)

\* The markdown is a sequence of pieces: the placeholder the engine writes
\* for the k-th picture, the link of an image file, the Mermaid block
\* converted from an image. The text between them holds none of the three.
ImagePlaceholder == [piece |-> "placeholder", of |-> <<>>]

\* "![{alt_text}]({relative_path})" with the details that follow it
ImageLink(relative_path) == [piece |-> "link", of |-> relative_path]

\* "**Mermaid Diagram (converted from {image_id}):**" and the fenced code
MermaidBlock(image_id) == [piece |-> "block", of |-> image_id]

\* what the picture's caption attribute holds
PictureCaptions == {<<>>, <<"L","o","g","i","n"," ","f","l","o","w">>, <<"T","e","a","m"," ","p","h","o","t","o">>}

\* the pictures of the document: whether the engine yields the pixels of the
\* picture, its caption, whether the answer of the vision model for it
\* carries Mermaid code
PictureDomain ==
  [has_image : BOOLEAN, caption : PictureCaptions, answers_mermaid : BOOLEAN]

\* image_processing.extract_images: one record per picture whose pixels
\* are available, numbered by the picture's position; with none, and the
\* pdfimages command not installed, one placeholder record per
\* "<!-- image -->" of the markdown
extract_images(pictures) ==
  LET record(k) ==
        LET cap == IF pictures[k].caption # <<>> THEN pictures[k].caption
                       ELSE <<"P","i","c","t","u","r","e"," ">> \o DecimalText(k)
        IN [id |-> <<"p","i","c","t","u","r","e","_">> \o DecimalText(k), type |-> <<"p","i","c","t","u","r","e">>,
            caption |-> cap,
            file_path |-> <<"/","o","u","t","/","p","i","c","t","u","r","e","_">> \o DecimalText(k) \o <<".","p","n","g">>,
            picture |-> k]
      placeholder(k) ==
        [id |-> <<"p","l","a","c","e","h","o","l","d","e","r","_">> \o DecimalText(k), type |-> <<"p","l","a","c","e","h","o","l","d","e","r">>,
         caption |-> <<"I","m","a","g","e"," ">> \o DecimalText(k) \o <<" ","(","c","o","u","l","d"," ","n","o","t"," ","e","x","t","r","a","c","t",")">>,
         file_path |-> <<>>, picture |-> k]
      all == [k \in 1..Len(pictures) |-> record(k)]
      found == SelectSeq(all, LAMBDA r : pictures[r.picture].has_image)
  IN IF found # <<>> THEN found
     ELSE [k \in 1..Len(pictures) |-> placeholder(k)]

\* os.path.basename(image_path)
Basename(path) ==
  LET slashes == {k \in 1..Len(path) : path[k] = "/"}
  IN IF slashes = {} THEN path
     ELSE SubSeq(path, Largest(slashes) + 1, Len(path))

\* content.replace(old piece, new, 1) on the first piece that fits
ReplaceFirst(content, Fits(_), new) ==
  LET at == Min({k \in 1..Len(content) : Fits(content[k])})
  IN [content EXCEPT ![at] = new]

\* docling_processor.replace_image_placeholders_with_links: the name args
\* is not bound in the function, so the relative path is the file's basename
RECURSIVE LinkPlaceholders(_, _, _)
LinkPlaceholders(content, imgs, image_index) ==
  IF (\E k \in 1..Len(content) : content[k] = ImagePlaceholder)
       /\ image_index < Len(imgs)
  THEN LET image == imgs[image_index + 1]
           relative_path ==
             IF image.file_path # <<>> THEN Basename(image.file_path)
             ELSE <<"i","m","a","g","e","_">> \o DecimalText(image_index + 1) \o <<".","p","n","g">>
       IN LinkPlaceholders(
            ReplaceFirst(content, LAMBDA p : p = ImagePlaceholder,
                         ImageLink(relative_path)),
            imgs, image_index + 1)
  ELSE content

replace_image_placeholders_with_links(content, imgs) ==
  IF imgs = <<>> THEN content ELSE LinkPlaceholders(content, imgs, 0)

is_likely_diagram(image_type, image_caption) ==
  IF Lower(image_type) \in
       {<<"c","h","a","r","t">>, <<"d","i","a","g","r","a","m">>, <<"f","l","o","w","c","h","a","r","t">>, <<"a","r","c","h","i","t","e","c","t","u","r","e">>, <<"g","r","a","p","h">>}
  THEN TRUE
  ELSE IF ContainsAny(Lower(image_caption),
            <<<<"d","i","a","g","r","a","m">>, <<"c","h","a","r","t">>, <<"g","r","a","p","h">>, <<"f","l","o","w","c","h","a","r","t">>, <<"a","r","c","h","i","t","e","c","t","u","r","e">>,
              <<"s","y","s","t","e","m">>, <<"p","r","o","c","e","s","s">>, <<"w","o","r","k","f","l","o","w">>, <<"f","l","o","w">>, <<"s","t","r","u","c","t","u","r","e">>,
              <<"o","v","e","r","v","i","e","w">>, <<"p","i","p","e","l","i","n","e">>>>)
  THEN TRUE
  ELSE IF ContainsAny(Lower(image_caption),
            <<<<"p","h","o","t","o">>, <<"s","c","r","e","e","n","s","h","o","t">>, <<"p","i","c","t","u","r","e">>, <<"i","m","a","g","e">>, <<"l","o","g","o">>, <<"i","c","o","n">>,
              <<"p","o","r","t","r","a","i","t">>, <<"l","a","n","d","s","c","a","p","e">>, <<"f","i","g","u","r","e">>, <<"i","l","l","u","s","t","r","a","t","i","o","n">>>>)
  THEN FALSE
  ELSE TRUE

\* process_images_with_vlm_pipeline: an image is skipped when it is not a
\* likely diagram, when its file cannot be read (the empty path of a
\* placeholder record) and when the analysis returns no Mermaid code, which
\* analyze_with_basic_vision never does
process_images_with_vlm_pipeline(imgs, pictures, external) ==
  LET kept == SelectSeq(imgs, LAMBDA image :
                /\ is_likely_diagram(image.type, image.caption)
                /\ image.file_path # <<>>
                /\ external
                /\ pictures[image.picture].answers_mermaid)
  IN [k \in 1..Len(kept) |-> [image_id |-> kept[k].id]]

\* integrate_mermaid_into_content: a placeholder left in the content is
\* taken first, then the first link whose path holds the image id, and the
\* block is appended when there is neither
RECURSIVE integrate_mermaid_into_content(_, _)
integrate_mermaid_into_content(content, results) ==
  IF results = <<>> THEN content
  ELSE LET image_id == Head(results).image_id
           mermaid_block == MermaidBlock(image_id)
           IsOwnLink(p) == p.piece = "link" /\ Contains(p.of, image_id)
           updated ==
             IF \E k \in 1..Len(content) : content[k] = ImagePlaceholder
             THEN ReplaceFirst(content, LAMBDA p : p = ImagePlaceholder,
                               mermaid_block)
             ELSE IF \E k \in 1..Len(content) : IsOwnLink(content[k])
             THEN ReplaceFirst(content, IsOwnLink, mermaid_block)
             ELSE Append(content, mermaid_block)
       IN integrate_mermaid_into_content(updated, Tail(results))

InitIntegrate ==
  /\ mi_pictures \in SeqsUpTo(PictureDomain, MaxPictures)
  /\ mi_external \in BOOLEAN
  /\ content_output = [k \in 1..Len(mi_pictures) |-> ImagePlaceholder]
  /\ images = <<>>
  /\ mermaid_results = <<>>
  /\ mpc = "extract"

\* "images = extract_images(result.document, args)" and the replacement of
\* the placeholders by links
ExtractImages ==
  /\ mpc = "extract"
  /\ images' = extract_images(mi_pictures)
  /\ content_output' =
       replace_image_placeholders_with_links(content_output, images')
  /\ mpc' = IF images' # <<>> THEN "pipeline" ELSE "done"
  /\ UNCHANGED <<mi_pictures, mi_external, mermaid_results>>
  /\ UNCHANGED <<dispatchVars, tableVars, convertVars, collectVars,
                 classifyVars, diagramTypeVars, parseVars, contextVars,
                 validateVars, basicVisionVars, synthesizeVars, resolveVars>>

\* "mermaid_results = process_images_with_vlm_pipeline(images, args)"
ProcessImagesWithVlmPipeline ==
  /\ mpc = "pipeline"
  /\ mermaid_results' =
       process_images_with_vlm_pipeline(images, mi_pictures, mi_external)
  /\ mpc' = IF mermaid_results' # <<>> /\ content_output # <<>>
            THEN "integrate" ELSE "done"
  /\ UNCHANGED <<mi_pictures, mi_external, images, content_output>>
  /\ UNCHANGED <<dispatchVars, tableVars, convertVars, collectVars,
                 classifyVars, diagramTypeVars, parseVars, contextVars,
                 validateVars, basicVisionVars, synthesizeVars, resolveVars>>

\* "content_output = integrate_mermaid_into_content(content_output,
\* mermaid_results)"
IntegrateMermaidIntoContent ==
  /\ mpc = "integrate"
  /\ content_output' =
       integrate_mermaid_into_content(content_output, mermaid_results)
  /\ mpc' = "done"
  /\ UNCHANGED <<mi_pictures, mi_external, images, mermaid_results>>
  /\ UNCHANGED <<dispatchVars, tableVars, convertVars, collectVars,
                 classifyVars, diagramTypeVars, parseVars, contextVars,
                 validateVars, basicVisionVars, synthesizeVars, resolveVars>>

NextIntegrate ==
  \/ ExtractImages
  \/ ProcessImagesWithVlmPipeline
  \/ IntegrateMermaidIntoContent

InitM ==
  /\ IdleDispatch /\ IdleTable /\ IdleConvert /\ IdleCollect
  /\ IdleClassify /\ IdleDiagramType /\ IdleParse /\ IdleContext
  /\ IdleValidate /\ IdleBasicVision /\ IdleSynthesize /\ IdleResolve
  /\ InitIntegrate

SpecIntegrate == InitM /\ [][NextIntegrate]_vars

\* ------------------------------------------------------------ properties
Last(sq) == sq[Len(sq)]

Rank(st) ==
  CASE st = "EXTERNAL" -> 1 [] st = "LOCAL" -> 2 [] st = "BASIC" -> 3
    [] st = "CONTEXT" -> 4

ExternalFailures == {"http_error", "network_error"}

\* C1 (as claimed): a figure with surrounding_text and no raw bytes gets its
\* analysis from the CONTEXT strategy alone, whatever enable_remote_services
\* and vision_mode are, and the result is never the error payload.
C1_FallbackCompleteness ==
  (pc = "merge" /\ figure.stext /\ ~figure.raw) =>
    /\ trace = <<"CONTEXT">>
    /\ vision_description.strategy = "CONTEXT"
    /\ vision_description.type # "error"

\* C2 (as claimed): a POST request is issued only if the caller itself
\* enabled remote services and selected a non-standard vision mode, with
\* endpoint and key configured.
C2_ExternalOnlyIfCallerExplicit ==
  http > 0 =>
    /\ caller_args.enable_remote_services
    /\ caller_args.vision_mode # "standard"
    /\ env.url /\ env.key

\* C2 (amended): a POST request is issued only if the args in effect, which
\* under process_document are the ones resolve_feature_dependencies returned,
\* have remote services enabled and vision mode advanced, with endpoint and
\* key configured; a caller of process_document who did not enable both
\* explicitly can only get a request by having set diagram_description.
C2_ExternalOnlyIfResolved ==
  http > 0 =>
    /\ args.enable_remote_services
    /\ args.vision_mode = "advanced"
    /\ env.url /\ env.key
    /\ entry = "process_document" =>
         /\ args = ResolveFeatureDependencies(caller_args)
         /\ caller_args.diagram_description

C2_Witness ==
  /\ http = 1
  /\ entry = "process_document"
  /\ ~caller_args.enable_remote_services
  /\ caller_args.vision_mode = "standard"
  /\ ~caller_args.chart_data_extraction

\* C3 (as claimed): when remote services are disabled or the vision mode is
\* standard, every figure with raw bytes is analysed by BASIC and only by
\* BASIC, and CONTEXT runs only for figures without raw bytes.
C3_StartsAtBasic ==
  /\ (pc = "merge" /\ figure.raw
        /\ (~args.enable_remote_services \/ args.vision_mode = "standard")) =>
       /\ trace = <<"BASIC">>
       /\ vision_description.strategy = "BASIC"
  /\ (pc = "merge" /\ trace # <<>> /\ Last(trace) = "CONTEXT") => ~figure.raw

\* C4 (as claimed): after a failed POST request the next strategy is LOCAL
\* when local fallback is enabled; otherwise the error payload is the result
\* and no further strategy runs.
C4_FailureTransition ==
  ext_outcome \in ExternalFailures =>
    IF env.fallback_local
    THEN IF Len(trace) = 1 THEN pc = "analyze_with_smoldocling"
         ELSE trace[2] = "LOCAL"
    ELSE trace = <<"EXTERNAL">> /\ vision_description = ErrorPayload

\* C5: for every figure the strategies run in the order EXTERNAL, LOCAL,
\* BASIC, each at most once, at most one POST request is issued, the
\* dispatcher ends with the result of the last strategy it ran, and every
\* step brings the function closer to its end.
PcRank ==
  CASE pc = "done" -> 0
    [] pc = "loop" -> 1
    [] pc = "merge" -> 2
    [] pc = "context_check" -> 3
    [] pc = "analyze_with_basic_vision" -> 4
    [] pc = "analyze_with_smoldocling" -> 5
    [] pc = "external_request" -> 6
    [] pc = "analyze_with_vlm_pipeline" -> 7
    [] pc = "generate_vlm_description" -> 8
    [] pc = "start" -> 11

Measure == (nfigures - i) * 10 + PcRank

DispatchOrdered ==
  /\ \A j, k \in 1..Len(trace) : j < k => Rank(trace[j]) < Rank(trace[k])
  /\ http <= 1
  /\ (pc = "merge" /\ trace # <<>>) =>
       /\ vision_description # NoDescription
       /\ vision_description.strategy = Last(trace)
  /\ (pc = "merge" /\ ShouldGenerateVlm(args)) => trace # <<>>

C5_SequentialNoRetry ==
  /\ []DispatchOrdered
  /\ [][Measure' < Measure]_vars

C5_Witness ==
  /\ pc = "merge"
  /\ trace = <<"EXTERNAL", "BASIC">>
  /\ http = 1
  /\ ext_outcome = "network_error"

\* C6 (as claimed): after the loop body has run for a figure, that figure has
\* no diagram record exactly when it has neither raw bytes nor surrounding
\* text.
HasRecord(k) == \E j \in 1..Len(diagrams) : diagrams[j].id = k

C6_SkippedOnlyWhenUnanalysable ==
  (pc \in {"loop", "done"} /\ i > 0) =>
    (~HasRecord(i) <=> (~figure.raw /\ ~figure.stext))

\* C7 (as claimed): when the function has returned, every figure other than
\* one whose processing raised has its record.
C7_ErrorIsolation ==
  (pc = "done" /\ args.diagram_description) =>
    Len(diagrams) >= nfigures - (IF raised THEN 1 ELSE 0)

\* the diagram passes the confidence threshold and the classification, code
\* is generated for it, and validate_mermaid_syntax rejects that code
GeneratedCodeRejected(diagram) ==
  /\ IsFloat(diagram.confidence)
  /\ diagram.confidence.float >= 8000
  /\ LET c == classify_diagram_vs_screenshot(diagram)
     IN c.is_diagram /\ c.confidence >= 8000
  /\ LET g == generate_mermaid_code(diagram)
     IN g.success /\ ~validate_mermaid_syntax(g.mermaid_code)

\* C8: no record that convert_diagrams_to_mermaid has built or returned
\* carries a mermaid_code that validate_mermaid_syntax rejects; the returned
\* list has one record per input record, with the input's description, and a
\* record whose generated code was rejected has no mermaid_code key.
C8_ValidatorSoundness ==
  /\ \A k \in 1..Len(converted_diagrams) :
       "mermaid_code" \in DOMAIN converted_diagrams[k] =>
         validate_mermaid_syntax(converted_diagrams[k].mermaid_code)
  /\ cpc = "returned" =>
       /\ Len(returned) = Len(input_diagrams)
       /\ \A k \in 1..Len(returned) :
            /\ "mermaid_code" \in DOMAIN returned[k] =>
                 validate_mermaid_syntax(returned[k].mermaid_code)
            /\ returned[k].description = input_diagrams[k].description
            /\ GeneratedCodeRejected(input_diagrams[k]) =>
                 "mermaid_code" \notin DOMAIN returned[k]

C8_Witness ==
  /\ cpc = "returned"
  /\ \E k \in 1..Len(returned) :
       /\ GeneratedCodeRejected(input_diagrams[k])
       /\ "mermaid_code" \notin DOMAIN returned[k]
  /\ \E k \in 1..Len(returned) : "mermaid_code" \in DOMAIN returned[k]

\* Scenario B: an architecture record with the elements "API Service" and
\* "User Database"
IsScenarioB(diagram) ==
  /\ diagram.diagram_type = <<"a","r","c","h","i","t","e","c","t","u","r","e">>
  /\ diagram.elements = <<[content |-> Str(<<"A","P","I"," ","S","e","r","v","i","c","e">>)],
                          [content |-> Str(<<"U","s","e","r"," ","D","a","t","a","b","a","s","e">>)]>>

\* the node ids whose line in the code declares a node of the given shape
\* and label
NodeIds(mermaid_code, open, label, close) ==
  LET lines == Split(mermaid_code, <<"\n">>) IN
  {n \in 1..Len(Letters) :
     \E k \in 1..Len(lines) :
       Strip(lines[k]) = <<Letters[n]>> \o open \o label \o close}

\* the number of lines of the code that declare such a node
NodeCount(mermaid_code, open, label, close) ==
  LET lines == Split(mermaid_code, <<"\n">>) IN
  Cardinality({k \in 1..Len(lines) :
                 \E n \in 1..Len(Letters) :
                   Strip(lines[k]) = <<Letters[n]>> \o open \o label \o close})

\* the code has an edge line between a node of a and a node of b
HasEdge(mermaid_code, a, b) ==
  LET lines == Split(mermaid_code, <<"\n">>) IN
  \E x \in a, y \in b, k \in 1..Len(lines) :
    Strip(lines[k]) = <<Letters[x]>> \o <<" ","-","-",">"," ">> \o <<Letters[y]>>

\* what Scenario B states of the code, for the shape of the "API Service"
\* node given by open and close
ScenarioBCode(mermaid_code, open, close) ==
  /\ StartsWith(mermaid_code, <<"g","r","a","p","h"," ","T","D">>)
  /\ NodeCount(mermaid_code, open, <<"A","P","I"," ","S","e","r","v","i","c","e">>, close) = 1
  /\ NodeCount(mermaid_code, <<"[","(">>, <<"U","s","e","r"," ","D","a","t","a","b","a","s","e">>, <<")","]">>) = 1
  /\ HasEdge(mermaid_code,
             NodeIds(mermaid_code, open, <<"A","P","I"," ","S","e","r","v","i","c","e">>, close),
             NodeIds(mermaid_code, <<"[","(">>, <<"U","s","e","r"," ","D","a","t","a","b","a","s","e">>, <<")","]">>))
  /\ validate_mermaid_syntax(mermaid_code)

\* C20 (as claimed): for Scenario B the generated Mermaid starts with
\* "graph TD", holds exactly one rectangle node A[...] for "API Service", one
\* cylinder node [(...)] for "User Database" and an edge between the two,
\* and validate_mermaid_syntax accepts it.
C20_ScenarioBRectangle ==
  (cpc = "validate" /\ IsScenarioB(input_diagrams[cidx + 1])) =>
    ScenarioBCode(mermaid_result.mermaid_code, <<"[">>, <<"]">>)

\* C20 (amended): for Scenario B the generated Mermaid starts with
\* "graph TD", holds exactly one rounded node A(...) for "API Service", no
\* rectangle node for it, one cylinder node [(...)] for "User Database" and
\* an edge from the first to the second; validate_mermaid_syntax accepts it
\* and the converted record carries it.
C20_ScenarioBRounded ==
  /\ (cpc = "validate" /\ IsScenarioB(input_diagrams[cidx + 1])) =>
        /\ ScenarioBCode(mermaid_result.mermaid_code, <<"(">>, <<")">>)
        /\ NodeCount(mermaid_result.mermaid_code, <<"[">>, <<"A","P","I"," ","S","e","r","v","i","c","e">>, <<"]">>) = 0
  /\ \A k \in 1..Len(converted_diagrams) :
       IsScenarioB(input_diagrams[k]) =>
         /\ "mermaid_code" \in DOMAIN converted_diagrams[k]
         /\ ScenarioBCode(converted_diagrams[k].mermaid_code, <<"(">>, <<")">>)

C20_Witness ==
  /\ cpc = "returned"
  /\ Len(returned) = 1
  /\ IsScenarioB(input_diagrams[1])
  /\ "mermaid_code" \in DOMAIN returned[1]
  /\ StartsWith(returned[1].mermaid_code, <<"g","r","a","p","h"," ","T","D","\n"," "," "," "," ","A","(","A","P","I"," ","S","e","r","v","i","c","e",")","\n"," "," "," "," ","B","[","(","U","s","e","r"," ","D","a","t","a","b","a","s","e",")","]","\n"," "," "," "," ","A"," ","-","-",">"," ","B","\n">>)

\* ----------------------------------------------- reading a rendering back
Indices(sq) == [k \in 1..Len(sq) |-> k]

\* the cells of one line of a pipe table
MdCells(line) == Split(SubSeq(line, 3, Len(line) - 2), <<" ", "|", " ">>)

\* the fields of one CSV record whose fields need no quoting
CsvCells(line) ==
  IF line = <<"\"", "\"">> THEN <<<<>>>> ELSE Split(line, <<",">>)

\* the texts of the <td> lines that follow line j of an HTML rendering
RECURSIVE HtmlTdRun(_, _)
HtmlTdRun(lines, j) ==
  IF j <= Len(lines) /\ StartsWith(lines[j], HtmlTdOpen)
  THEN <<SubSeq(lines[j], Len(HtmlTdOpen) + 1,
                Len(lines[j]) - Len(HtmlTdClose))>> \o HtmlTdRun(lines, j + 1)
  ELSE <<>>

\* the rendered rows, one sequence of cells per row, header row included
MdRendered ==
  LET lines == Split(markdown, <<"\n">>) IN
  [k \in 1..Len(lines) |-> MdCells(lines[k])]

CsvRendered ==
  LET lines == Split(csv, <<"\r", "\n">>) IN
  [k \in 1..Len(lines) |-> CsvCells(lines[k])]

HtmlRendered ==
  LET lines == Split(html, <<"\n">>)
      trs == SelectSeq(Indices(lines), LAMBDA j : lines[j] = HtmlTrOpen)
  IN [k \in 1..Len(trs) |-> HtmlTdRun(lines, trs[k] + 1)]

\* C9 (as claimed): with headers present, a row longer than the headers is
\* rendered with exactly len(headers) cells in Markdown, CSV and HTML.
C9_LongRowsTruncated ==
  (tpc = "done" /\ headers # <<>>) =>
    LET md == MdRendered
        cs == CsvRendered
        ht == HtmlRendered
    IN \A k \in 1..Len(rows) :
         Len(rows[k]) > Len(headers) =>
           /\ Len(md[k + 2]) = Len(headers)
           /\ Len(cs[k + 1]) = Len(headers)
           /\ Len(ht[k + 1]) = Len(headers)

\* C10: with headers present, a row shorter than the headers is rendered in
\* Markdown, CSV and HTML as its own cells followed by empty cells up to
\* len(headers), and the k-th rendered row starts with the cells of the k-th
\* input row.
C10_ShortRowsPadded ==
  (tpc = "done" /\ headers # <<>>) =>
    LET md == MdRendered
        cs == CsvRendered
        ht == HtmlRendered
    IN /\ Len(md) = Len(rows) + 2
       /\ Len(cs) = Len(rows) + 1
       /\ Len(ht) = Len(rows) + 1
       /\ \A k \in 1..Len(rows) :
            LET n == Len(rows[k])
                padded == rows[k] \o [j \in 1..(Len(headers) - n) |-> <<>>]
            IN /\ SubSeq(md[k + 2], 1, n) = rows[k]
               /\ SubSeq(cs[k + 1], 1, n) = rows[k]
               /\ SubSeq(ht[k + 1], 1, n) = rows[k]
               /\ n < Len(headers) =>
                    /\ md[k + 2] = padded
                    /\ cs[k + 1] = padded
                    /\ ht[k + 1] = padded

\* C11 (as claimed): parsing the rendered Markdown back with
\* extract_table_from_element gives the headers and the rows that were
\* rendered.
C11_MarkdownRoundTrip ==
  tpc = "extracted" =>
    /\ table_data.headers = headers
    /\ table_data.rows = rows

\* C13 (as claimed): when the loop ran to its end, no two records were built
\* for the same figure element and no two records share an id.
C13_OneRecordPerFigure ==
  (kpc = "returned" /\ ~fig_raised) =>
    \A a, b \in 1..Len(fig_diagrams) :
      (\/ fig_diagrams[a].figure = fig_diagrams[b].figure
       \/ fig_diagrams[a].id = fig_diagrams[b].id) => a = b

\* two calls that did not raise, with the same diagram_type and the same
\* screenshot score, the second with the higher diagram score
ComparableCalls ==
  /\ Len(cl_calls) = 2
  /\ ~cl_calls[1].raised /\ ~cl_calls[2].raised
  /\ cl_calls[1].diagram.diagram_type = cl_calls[2].diagram.diagram_type
  /\ cl_calls[1].screenshot_score = cl_calls[2].screenshot_score
  /\ cl_calls[1].diagram_score < cl_calls[2].diagram_score

\* C14 (as claimed): for a fixed screenshot score and diagram_type, a higher
\* diagram score never gives a lower returned confidence.
C14_ConfidenceMonotone ==
  ComparableCalls =>
    cl_calls[1].result.confidence <= cl_calls[2].result.confidence

\* the confidence that the record is convertible: the returned confidence
\* when is_diagram is true, its negation when is_diagram is false
ConvertibleConfidence(result) ==
  IF result.is_diagram THEN result.confidence ELSE 0 - result.confidence

\* C14 (amended): for a fixed screenshot score and diagram_type, a higher
\* diagram score never gives a lower confidence of convertibility.
C14_ConvertibilityMonotone ==
  ComparableCalls =>
    ConvertibleConfidence(cl_calls[1].result)
      <= ConvertibleConfidence(cl_calls[2].result)

C14_Witness ==
  /\ ComparableCalls
  /\ ~cl_calls[1].result.is_diagram
  /\ cl_calls[2].result.is_diagram
  /\ cl_calls[1].result.confidence > cl_calls[2].result.confidence

\* min(0.9, 0.7 + 0.1 * n) in exact arithmetic
ExactConfidence(n) == IF 7000 + 1000 * n > 9000 THEN 9000 ELSE 7000 + 1000 * n

\* C15 (as claimed): every call returns a confidence within [0.6, 0.9], and
\* with d diagram and s screenshot matches it returns (True, min(0.9, 0.7 +
\* 0.1 (d - s))) for d > s, (False, min(0.9, 0.7 + 0.1 (s - d))) for s > d,
\* and on a tie (True, 0.7), (False, 0.7) or (True, 0.6) by diagram_type.
C15_ClassificationTable ==
  \A k \in 1..Len(cl_calls) :
    LET call == cl_calls[k]
        d == call.diagram_score
        s == call.screenshot_score
        t == Lower(call.diagram.diagram_type)
    IN /\ call.result.confidence >= 6000
       /\ call.result.confidence <= 9000
       /\ d > s =>
            call.result = [is_diagram |-> TRUE,
                           confidence |-> ExactConfidence(d - s)]
       /\ s > d =>
            call.result = [is_diagram |-> FALSE,
                           confidence |-> ExactConfidence(s - d)]
       /\ d = s =>
            call.result =
              IF t \in {<<"f","l","o","w","c","h","a","r","t">>, <<"a","r","c","h","i","t","e","c","t","u","r","e">>, <<"d","i","a","g","r","a","m">>, <<"c","h","a","r","t">>}
              THEN [is_diagram |-> TRUE, confidence |-> 7000]
              ELSE IF t \in {<<"s","c","r","e","e","n","s","h","o","t">>, <<"i","n","t","e","r","f","a","c","e">>, <<"u","i">>}
              THEN [is_diagram |-> FALSE, confidence |-> 7000]
              ELSE [is_diagram |-> TRUE, confidence |-> 6000]

\* C16 (as claimed): when convert_diagrams_to_mermaid classifies a record
\* whose keyword scores tie and whose diagram_type is not screenshot,
\* interface or ui, it goes on to generate_mermaid_code.
TieLeaningToDiagram(diagram) ==
  /\ \A k \in 1..Len(ElementContents(diagram.elements)) :
       IsStr(ElementContents(diagram.elements)[k])
  /\ KeywordScore(diagram_keywords, classifier_text(diagram))
       = KeywordScore(screenshot_keywords, classifier_text(diagram))
  /\ Lower(diagram.diagram_type) \notin {<<"s","c","r","e","e","n","s","h","o","t">>, <<"i","n","t","e","r","f","a","c","e">>, <<"u","i">>}

C16_TieAttemptsConversion ==
  [][(cpc = "classify" /\ TieLeaningToDiagram(input_diagrams[cidx + 1]))
       => cpc' = "generate"]_vars

\* the classes in priority order, each with its keywords
TypeKeywordSets ==
  <<[class |-> <<"f","l","o","w","c","h","a","r","t">>,
     keywords |-> <<<<"f","l","o","w","c","h","a","r","t">>, <<"f","l","o","w"," ","c","h","a","r","t">>, <<"p","r","o","c","e","s","s">>, <<"w","o","r","k","f","l","o","w">>>>],
    [class |-> <<"c","h","a","r","t">>, keywords |-> <<<<"c","h","a","r","t">>, <<"g","r","a","p","h">>, <<"p","l","o","t">>>>],
    [class |-> <<"d","i","a","g","r","a","m">>,
     keywords |-> <<<<"d","i","a","g","r","a","m">>, <<"s","c","h","e","m","a","t","i","c">>, <<"a","r","c","h","i","t","e","c","t","u","r","e">>>>],
    [class |-> <<"t","a","b","l","e">>, keywords |-> <<<<"t","a","b","l","e">>, <<"m","a","t","r","i","x">>>>],
    [class |-> <<"m","a","p">>, keywords |-> <<<<"m","a","p">>, <<"l","a","y","o","u","t">>, <<"p","l","a","n">>>>]>>

\* the keyword sets that the figure's lower-cased caption and alt text match
MatchingSets(fig) ==
  {k \in 1..Len(TypeKeywordSets) :
     ContainsAny(Lower(fig.caption) \o <<" ">> \o Lower(fig.alt_text),
                 TypeKeywordSets[k].keywords)}

\* C17: classify_diagram_type returns the class of the earliest keyword set,
\* in the order flowchart, chart, diagram, table, map, that the lower-cased
\* caption and alt text match, and unknown when none matches.
C17_FirstMatchingSetWins ==
  typc = "returned" =>
    ty_result.str =
      IF MatchingSets(ty_figure) = {} THEN <<"u","n","k","n","o","w","n">>
      ELSE TypeKeywordSets[Min(MatchingSets(ty_figure))].class

C17_Witness ==
  /\ typc = "returned"
  /\ MatchingSets(ty_figure) = {1, 2, 5}
  /\ ty_figure.caption = <<"f","l","o","o","r"," ","l","a","y","o","u","t"," ","F","l","o","w"," ","c","h","a","r","t">>
  /\ ty_result.str = <<"f","l","o","w","c","h","a","r","t">>

\* C18: whenever the response content contains "no clear diagram detected"
\* in any case, whatever else it holds, parse_vlm_response returns the type
\* "none", the confidence 0.9 and an empty Mermaid code.
C18_NoDiagramMarkerWins ==
  (vpc = "returned"
   /\ Contains(Lower(vlm_content), <<"n","o"," ","c","l","e","a","r"," ","d","i","a","g","r","a","m"," ","d","e","t","e","c","t","e","d">>))
    => /\ vlm_result.type = <<"n","o","n","e">>
       /\ vlm_result.confidence = 9000
       /\ vlm_result.mermaid_code = <<>>

\* the lines of a fenced block that are kept: the stripped lines that are
\* not empty, without the graph declarations that follow the first one
RECURSIVE KeptLines(_, _)
KeptLines(lines, declared) ==
  IF lines = <<>> THEN <<>>
  ELSE LET line == Strip(Head(lines))
           declaration == IsGraphDeclaration(line)
       IN (IF line = <<>> \/ (declaration /\ declared) THEN <<>>
           ELSE <<line>>)
          \o KeptLines(Tail(lines), declared \/ declaration)

\* C19: for a fenced Mermaid block in a freeform response, the returned
\* Mermaid code holds the first graph declaration line and all the body
\* lines in order, never more than one declaration line, and it is empty
\* when no body line remains beside the declaration.
C19_DuplicateDeclarationsStripped ==
  (vpc = "returned" /\ vlm_block # NoBlock) =>
    LET kept == KeptLines(vlm_block.lines, FALSE)
        body == SelectSeq(kept, LAMBDA l : ~IsGraphDeclaration(l))
        code == Split(vlm_result.mermaid_code, <<"\n">>)
    IN /\ Cardinality({k \in 1..Len(code) : IsGraphDeclaration(code[k])}) <= 1
       /\ vlm_result.mermaid_code =
            IF body = <<>> THEN <<>> ELSE Join(kept, <<"\n">>)

\* the label tokens of a context analysis: the contents of its elements and
\* the labels of its extracted data
ContextLabels(result) ==
  {result.elements[k].content : k \in 1..Len(result.elements)}
  \cup {result.extracted_data.labels[k] :
          k \in 1..Len(result.extracted_data.labels)}

\* C21: for the surrounding text "Revenue grew to 150 million in Q3" the
\* context analysis returns confidence 0.8, extracts the number 150, and its
\* label tokens include the separate tokens "Revenue", "grew" and "Q3".
C21_ScenarioE ==
  (xpc = "returned" /\ ctx_text = Str(ScenarioEText)) =>
    /\ ctx_result.confidence = 8000
    /\ ctx_result.extracted_data.data_points = <<<<"1","5","0",".","0">>>>
    /\ {<<"R","e","v","e","n","u","e">>, <<"g","r","e","w">>, <<"Q","3">>} \subseteq ContextLabels(ctx_result)

\* the conditions of acceptance, read off the lines of the source as given
AcceptanceConditions(code) ==
  LET lines == Split(code, <<"\n">>)
      nonblank == {k \in 1..Len(lines) : Strip(lines[k]) # <<>>}
  IN /\ nonblank # {}
     /\ LET first == Min(nonblank) IN
        /\ \E kw \in {<<"g","r","a","p","h">>, <<"f","l","o","w","c","h","a","r","t">>, <<"s","e","q","u","e","n","c","e","d","i","a","g","r","a","m">>, <<"c","l","a","s","s","d","i","a","g","r","a","m">>,
                      <<"s","t","a","t","e","d","i","a","g","r","a","m">>, <<"e","r","d","i","a","g","r","a","m">>} :
             StartsWith(Lower(Strip(lines[first])), kw)
        /\ \E k \in (first + 1)..Len(lines) :
             /\ ~StartsWith(Strip(lines[k]), <<"c","l","a","s","s","D","e","f">>)
             /\ ~StartsWith(Strip(lines[k]), <<"c","l","a","s","s"," ">>)
             /\ \E m \in {<<"[">>, <<"(">>, <<"{">>, <<"-","-",">">>, <<"-","-","-">>} :
                  Contains(lines[k], m)
     /\ Count(code, "[") = Count(code, "]")
     /\ Count(code, "(") = Count(code, ")")
     /\ Count(code, "{") = Count(code, "}")

\* C22: validate_mermaid_syntax accepts a string exactly when it is not
\* blank, its first non-blank line starts, in any case, with one of the six
\* diagram keywords, the counts of [ and ], ( and ), { and } are equal, and
\* some later line that is no classDef or class line holds a node or edge
\* marker.
C22_ValidatorAcceptsExactly ==
  vapc = "returned" => (val_result.bool <=> AcceptanceConditions(val_code))

C22_Witness ==
  /\ vapc = "returned"
  /\ val_code = <<"\n"," "," ","F","l","o","w","c","h","a","r","t"," ","L","R","\n"," ","A"," ","-","-","-"," ","B"," ">>
  /\ val_result.bool

\* C23: collecting the figures never writes to the upstream objects: no step
\* of extract_diagram_descriptions changes the document or the page_number
\* attribute of any of its elements.
C23_UpstreamUntouched ==
  [][document' = document /\ page_number' = page_number]_vars

\* OCR produced at least one text token that is not empty
OcrFoundText(ocr) ==
  /\ ocr.kind = "results"
  /\ \E k \in 1..Len(ocr.texts) : Strip(ocr.texts[k]) # <<>>

\* C24: analyze_with_basic_vision returns confidence 0.7 exactly when OCR
\* produced at least one non-empty text token, and one of the defaults 0.5
\* and 0.1 when no text was found.
C24_BasicConfidence ==
  bpc = "returned" =>
    /\ bv_result.confidence = 7000 <=> OcrFoundText(bv_ocr)
    /\ ~OcrFoundText(bv_ocr) => bv_result.confidence \in {5000, 1000}

\* ------------------------------------------------ reading Mermaid code
\* the stripped lines of the code after the declaration
BodyLines(mermaid_code) ==
  LET lines == Split(mermaid_code, <<"\n">>)
      stripped == [k \in 1..Len(lines) |-> Strip(lines[k])]
  IN SelectSeq(Tail(stripped), LAMBDA l : l # <<>>)

IsEdgeLine(line) == Len(line) = 7 /\ SubSeq(line, 2, 6) = <<" ","-","-",">"," ">>

\* the node ids that the code declares: the first character of every body
\* line that is no edge and no classDef line
EmittedNodes(mermaid_code) ==
  LET body == BodyLines(mermaid_code) IN
  {body[k][1] : k \in {j \in 1..Len(body) :
                         /\ ~IsEdgeLine(body[j])
                         /\ ~StartsWith(body[j], <<"c","l","a","s","s","D","e","f">>)}}

\* the edges of the code, as pairs of node ids
EmittedEdges(mermaid_code) ==
  LET body == BodyLines(mermaid_code) IN
  {<<body[k][1], body[k][7]>> : k \in {j \in 1..Len(body) : IsEdgeLine(body[j])}}

\* the text elements of the record that was given to generate_mermaid_code
SynTextElements ==
  [k \in 1..Len(syn_diagram.elements) |-> syn_diagram.elements[k].content.str]

\* C25: for a flowchart of two or more text elements, the first text element
\* is the start node A and every emitted node, each decision included, is an
\* endpoint of at least one emitted edge.
C25_FlowchartConnected ==
  (/\ spc = "returned"
   /\ syn_diagram.diagram_type = <<"f","l","o","w","c","h","a","r","t">>
   /\ Len(syn_diagram.elements) >= 2) =>
    /\ syn_result.success
    /\ BodyLines(syn_result.mermaid_code)[1]
         = <<"A","[">> \o SynTextElements[1] \o <<"]">>
    /\ \A n \in EmittedNodes(syn_result.mermaid_code) :
         \E e \in EmittedEdges(syn_result.mermaid_code) : e[1] = n \/ e[2] = n

\* the numbers and the labels that chart synthesis finds in the elements
ChartNumberCount ==
  LET counts == [k \in 1..Len(SynTextElements) |->
                   Len(FindNumbers(SynTextElements[k], 1))]
      sum[k \in 0..Len(counts)] == IF k = 0 THEN 0 ELSE sum[k - 1] + counts[k]
  IN sum[Len(counts)]

ChartLabelCount ==
  Cardinality({k \in 1..Len(SynTextElements) :
                 Len(Strip(RemoveNumbers(SynTextElements[k], 1))) > 1})

\* C26: chart synthesis with numbers and labels emits k = min(5, #labels,
\* #numbers) nodes and k - 1 edges, each joining two consecutive emitted
\* nodes; no edge names a node id that was not emitted.
C26_ChartEdgesWithinNodes ==
  (/\ spc = "returned"
   /\ syn_diagram.diagram_type = <<"c","h","a","r","t">>
   /\ ChartNumberCount > 0 /\ ChartLabelCount > 0) =>
    LET k == Min({5, ChartLabelCount, ChartNumberCount})
        nodes == EmittedNodes(syn_result.mermaid_code)
        edges == EmittedEdges(syn_result.mermaid_code)
    IN /\ nodes = {Letters[j] : j \in 1..k}
       /\ edges = {<<Letters[j], Letters[j + 1]>> : j \in 1..(k - 1)}
       /\ \A e \in edges : e[1] \in nodes /\ e[2] \in nodes

\* C29: every Mermaid source that generate_mermaid_code returns for a
\* non-empty list of text elements, of any diagram type, any number of
\* elements and any label characters, is accepted by validate_mermaid_syntax.
C29_SynthesizedCodeValid ==
  (spc = "returned" /\ syn_diagram.elements # <<>> /\ syn_result.success) =>
    validate_mermaid_syntax(syn_result.mermaid_code)

\* the text tokens that analyze_with_basic_vision hands to
\* generate_structured_data_and_prompt
OcrTokens ==
  SelectSeq([k \in 1..Len(bv_ocr.texts) |-> Strip(bv_ocr.texts[k])],
            LAMBDA t : t # <<>>)

IsDecisionToken(t) ==
  \/ Contains(t, <<"?">>)
  \/ \E kw \in {<<"i","f">>, <<"t","h","e","n">>, <<"e","l","s","e">>, <<"d","e","c","i","s","i","o","n">>} : Contains(Lower(t), kw)

\* C27: in the flowchart payload of generate_structured_data_and_prompt,
\* decision_points holds exactly the tokens with "?" or a decision keyword,
\* processes holds exactly the remaining tokens, and the two lists are
\* disjoint.
C27_StepsApartFromDecisions ==
  (/\ bpc = "returned"
   /\ bv_result.extracted_data # [none |-> TRUE]
   /\ bv_result.extracted_data.type = <<"f","l","o","w","c","h","a","r","t">>) =>
    LET data == bv_result.extracted_data IN
    /\ data.decision_points = SelectSeq(OcrTokens, IsDecisionToken)
    /\ data.processes = SelectSeq(OcrTokens, LAMBDA t : ~IsDecisionToken(t))
    /\ \A a \in 1..Len(data.decision_points), b \in 1..Len(data.processes) :
         data.decision_points[a] # data.processes[b]

\* C28: the configuration resolve_feature_dependencies returns satisfies
\* every stated requirement at once: chart_data_extraction or
\* diagram_description implies a vision mode other than standard and remote
\* services enabled; vision mode advanced or smoldocling implies a processing
\* mode other than basic; and a processing mode that the smoldocling or the
\* advanced rule raised to advanced is still advanced in the result.
C28_RequirementsHoldTogether ==
  rfpc = "returned" =>
    /\ (rf_result.chart_data_extraction \/ rf_result.diagram_description) =>
         /\ rf_result.vision_mode # "standard"
         /\ rf_result.enable_remote_services
    /\ rf_result.vision_mode \in {"advanced", "smoldocling"} =>
         rf_result.processing_mode # "basic"
    /\ (rf_args.vision_mode \in {"advanced", "smoldocling"}
          /\ rf_args.processing_mode = "basic") =>
         rf_result.processing_mode = "advanced"

\* C30: once integrate_mermaid_into_content has run, a Mermaid block that
\* stands where the placeholder of a picture stood was converted from that
\* picture: the block at the k-th position among the document's placeholders
\* names the k-th picture's image, never another one.
C30_BlockAtOwnImage ==
  mpc = "done" =>
    \A k \in 1..Len(mi_pictures) :
      content_output[k].piece = "block" =>
        content_output[k].of = <<"p","i","c","t","u","r","e","_">> \o DecimalText(k)

\* the entity that stands for one character of input text
EntityOf(c) ==
  CASE c = "&" -> <<"&","a","m","p",";">>
    [] c = "<" -> <<"&","l","t",";">>
    [] c = ">" -> <<"&","g","t",";">>
    [] c = "\"" -> <<"&","q","u","o","t",";">>
    [] c = "'" -> <<"&","#","x","2","7",";">>
    [] OTHER -> <<c>>

\* the text with each character replaced once by its entity
Entities(text) == Flatten([k \in 1..Len(text) |-> EntityOf(text[k])])

\* the texts between open and close on the lines that start with open
InnerTexts(lines, open, close) ==
  LET sel == SelectSeq(lines, LAMBDA line : StartsWith(line, open))
  IN [k \in 1..Len(sel) |->
        SubSeq(sel[k], Len(open) + 1, Len(sel[k]) - Len(close))]

\* no raw < > " ' and every & begins one of the five entities
IsEscaped(text) ==
  /\ \A k \in 1..Len(text) : text[k] \notin {"<", ">", "\"", "'"}
  /\ \A k \in 1..Len(text) :
       text[k] = "&" =>
         \E c \in {"&", "<", ">", "\"", "'"} :
           /\ k + Len(EntityOf(c)) - 1 <= Len(text)
           /\ SubSeq(text, k, k + Len(EntityOf(c)) - 1) = EntityOf(c)

\* C12: in the HTML rendering the caption, every header and every cell is
\* the input text with each of & < > " ' replaced exactly once by its entity
\* (no entity is escaped again), and holds no raw < > " '.
C12_HtmlEscaped ==
  tpc = "done" =>
    LET lines == Split(html, <<"\n">>)
        captions == InnerTexts(lines, HtmlCaptionOpen, HtmlCaptionClose)
        ths == InnerTexts(lines, HtmlThOpen, HtmlThClose)
        tds == InnerTexts(lines, HtmlTdOpen, HtmlTdClose)
        cells == Flatten([k \in 1..Len(rows) |-> PadRow(rows[k], headers)])
    IN /\ captions = IF caption # <<>> THEN <<Entities(caption)>> ELSE <<>>
       /\ ths = [k \in 1..Len(headers) |-> Entities(headers[k])]
       /\ tds = [k \in 1..Len(cells) |-> Entities(cells[k])]
       /\ \A k \in 1..Len(captions) : IsEscaped(captions[k])
       /\ \A k \in 1..Len(ths) : IsEscaped(ths[k])
       /\ \A k \in 1..Len(tds) : IsEscaped(tds[k])

C12_Witness ==
  /\ tpc = "done"
  /\ headers = << <<"\"", "'">> >>
  /\ rows = << << <<"&", "<">> >> >>
  /\ caption = <<"&", "<">>
  /\ Contains(html, <<"&","a","m","p",";","&","l","t",";">>)

C10_Witness ==
  /\ tpc = "done"
  /\ headers = <<<<"A">>, <<"B">>>>
  /\ rows = << << <<"1">> >>, <<>> >>
  /\ MdRendered[4] = <<<<>>, <<>>>>

====
